---- MODULE Spec2Model ----
(***************************************************************************)
(* WOLManager: quality scoring and merge of host observations              *)
(* (app/services/data_quality.py) and the discovery service that drives    *)
(* the providers (app/services/discovery_service.py).                      *)
(*                                                                         *)
(* Python values are represented as follows.                               *)
(*   - str fields other than device_type: TLA+ strings; None is the        *)
(*     reserved string None.                                               *)
(*   - device_type: a sequence of one-character strings, so that           *)
(*     split('_'), startswith and "'_' in" are computed on characters;     *)
(*     None is NoneType (a sequence no string of characters equals).       *)
(*   - last_seen: a natural number, 0 for None, larger is newer.           *)
(*   - inference_confidence: an integer, -1 for None.                      *)
(***************************************************************************)
EXTENDS Integers, Sequences, FiniteSets, TLC

VARIABLES
    hosts,      \* merge_hosts: the argument list
    merged,     \* merge_hosts(hosts)
    remerged,   \* merge_hosts(merge_hosts(hosts))
    mpc,        \* position of the merge harness: "input", "merged", "remerged"
    lease,      \* analyze_dhcp_lease: the argument lease_data
    inferred,   \* analyze_dhcp_lease(lease)
    apc,        \* position of the analysis harness: "lease", "analyzed"
    wol,        \* the execution of WOLService.send_wol_packet
    api,        \* the execution of a request of the hosts API
    running,    \* DiscoveryService.running
    lpc,        \* position of the task running _discovery_loop
    cyc,        \* the executions of run_discovery, by caller
    store,      \* Redis: the host hashes, by IP
    discovery_status,   \* Redis key discovery:status
    last_run,   \* Redis key discovery:last_run
    now,        \* the clock, as last read
    settings,   \* app.core.config.settings
    redis,      \* redis_client.redis is not None
    net,        \* the addresses that answer on the network
    unavailable \* the providers that are not configured or not installed

mvars == <<hosts, merged, remerged, mpc>>
hvars == <<lease, inferred, apc>>
ovars == <<wol, api>>
svars == <<running, lpc, cyc, store, discovery_status, last_run, now>>
envvars == <<settings, redis, net, unavailable>>
vars == <<mvars, hvars, ovars, ovars, svars, envvars>>

(***************************************************************************)
(* Bounds of the model.                                                    *)
(***************************************************************************)
MaxObs == 3     \* longest list of observations handed to merge_hosts
MaxTime == 2    \* last_seen timestamps are 1..MaxTime

(***************************************************************************)
(* Values.                                                                 *)
(***************************************************************************)
None == "<None>"
NoneType == <<"<None>">>
NoConfidence == -1

ROUTEROS_API == "routeros_api"
ROUTEROS_REST == "routeros_rest"
SNMP == "snmp"
NETBIOS == "netbios"
MDNS == "mdns"
ARP == "arp"
DiscoveryMethod == {ROUTEROS_API, ROUTEROS_REST, SNMP, NETBIOS, MDNS, ARP}

ONLINE == "online"
OFFLINE == "offline"
UNKNOWN == "unknown"
HostStatus == {ONLINE, OFFLINE, UNKNOWN}

\* Python truthiness of an Optional[str]
Truthy(v) == v # None /\ v # ""
\* Python truthiness of a device_type
TruthyType(t) == t # NoneType /\ t # <<>>
\* len(v or '')
LenOrEmpty(v) == IF v = None THEN 0 ELSE Len(v)

\* Characters of the device types the providers produce
us == <<"_">>
w_dhcp == <<"d", "h", "c", "p">>
w_lease == <<"l", "e", "a", "s", "e">>
w_active == <<"a", "c", "t", "i", "v", "e">>
w_mobile == <<"m", "o", "b", "i", "l", "e">>
w_device == <<"d", "e", "v", "i", "c", "e">>
w_arp == <<"a", "r", "p">>
w_entry == <<"e", "n", "t", "r", "y">>
w_snmp == <<"s", "n", "m", "p">>
w_netbios == <<"n", "e", "t", "b", "i", "o", "s">>
w_windows == <<"w", "i", "n", "d", "o", "w", "s">>
w_ether == <<"e", "t", "h", "e", "r">>
w_server == <<"s", "e", "r", "v", "e", "r">>

T_dhcp_lease == w_dhcp \o us \o w_lease
T_arp_entry == w_arp \o us \o w_entry
T_snmp == w_snmp
T_netbios == w_netbios
T_windows == w_windows
T_snmp_arp == w_snmp \o us \o w_arp
T_dhcp_server == w_dhcp \o us \o w_server
T_arp_entry_ether == T_arp_entry \o us \o w_ether
T_dhcp_lease_active == T_dhcp_lease \o us \o w_active
T_dhcp_lease_active_mobile_device ==
    T_dhcp_lease_active \o us \o w_mobile \o us \o w_device

(***************************************************************************)
(* String operations on device types.                                      *)
(***************************************************************************)
\* s.startswith(p)
StartsWith(s, p) == Len(p) <= Len(s) /\ SubSeq(s, 1, Len(p)) = p

\* '_' in s
HasUnderscore(s) == \E i \in DOMAIN s : s[i] = "_"

\* s.split('_'): the list of the maximal '_'-free pieces of s
RECURSIVE SplitFrom(_, _, _)
SplitFrom(s, i, cur) ==
    IF i > Len(s) THEN <<cur>>
    ELSE IF s[i] = "_" THEN <<cur>> \o SplitFrom(s, i + 1, <<>>)
    ELSE SplitFrom(s, i + 1, Append(cur, s[i]))

Split(s) == SplitFrom(s, 1, <<>>)

(***************************************************************************)
(* Host (app/models/host.py)                                               *)
(***************************************************************************)
Host(ip, method) ==
    [ip_address |-> ip,
     mac_address |-> None,
     hostname |-> None,
     vendor |-> None,
     device_type |-> NoneType,
     os_info |-> None,
     discovery_method |-> method,
     status |-> UNKNOWN,
     last_seen |-> 0,
     wol_enabled |-> TRUE,
     notes |-> None,
     inferred_os |-> None,
     inferred_device_type |-> None,
     inference_confidence |-> NoConfidence]

(***************************************************************************)
(* DataQualityScorer                                                       *)
(***************************************************************************)
METHOD_SCORES ==
    [m \in DiscoveryMethod |->
        CASE m = ROUTEROS_API -> 100
          [] m = ROUTEROS_REST -> 95
          [] m = SNMP -> 80
          [] m = NETBIOS -> 70
          [] m = MDNS -> 60
          [] m = ARP -> 50]

\* A table in which notes count against a record
FIELD_SCORES_NotesPenalty ==
    [ip_address |-> 10, mac_address |-> 20, hostname |-> 15, vendor |-> 10,
     device_type |-> 8, os_info |-> 12, notes |-> -5]

FIELD_SCORES ==
    [ip_address |-> 10, mac_address |-> 20, hostname |-> 15, vendor |-> 10,
     device_type |-> 8, os_info |-> 12, notes |-> 5]

\* METHOD_SCORES.get(method, 0)
get_method_quality(method) ==
    IF method \in DOMAIN METHOD_SCORES THEN METHOD_SCORES[method] ELSE 0

\* value is not None and value != ""
Present(h, f) ==
    IF f = "device_type" THEN TruthyType(h[f]) ELSE Truthy(h[f])

\* The score without the bonus for a long os_info
score_host_NoRichBonus(h) ==
    get_method_quality(h.discovery_method)
    + (IF Present(h, "ip_address") THEN FIELD_SCORES.ip_address ELSE 0)
    + (IF Present(h, "mac_address") THEN FIELD_SCORES.mac_address ELSE 0)
    + (IF Present(h, "hostname") THEN FIELD_SCORES.hostname ELSE 0)
    + (IF Present(h, "vendor") THEN FIELD_SCORES.vendor ELSE 0)
    + (IF Present(h, "device_type") THEN FIELD_SCORES.device_type ELSE 0)
    + (IF Present(h, "os_info") THEN FIELD_SCORES.os_info ELSE 0)
    + (IF Present(h, "notes") THEN FIELD_SCORES.notes ELSE 0)
    + (IF TruthyType(h.device_type) /\ HasUnderscore(h.device_type) THEN 3 ELSE 0)

score_host(h) ==
    get_method_quality(h.discovery_method)
    + (IF Present(h, "ip_address") THEN FIELD_SCORES.ip_address ELSE 0)
    + (IF Present(h, "mac_address") THEN FIELD_SCORES.mac_address ELSE 0)
    + (IF Present(h, "hostname") THEN FIELD_SCORES.hostname ELSE 0)
    + (IF Present(h, "vendor") THEN FIELD_SCORES.vendor ELSE 0)
    + (IF Present(h, "device_type") THEN FIELD_SCORES.device_type ELSE 0)
    + (IF Present(h, "os_info") THEN FIELD_SCORES.os_info ELSE 0)
    + (IF Present(h, "notes") THEN FIELD_SCORES.notes ELSE 0)
    + (IF Truthy(h.os_info) /\ Len(h.os_info) > 20 THEN 5 ELSE 0)
    + (IF TruthyType(h.device_type) /\ HasUnderscore(h.device_type) THEN 3 ELSE 0)

(***************************************************************************)
(* HostMerger                                                              *)
(***************************************************************************)
\* status_priority.get(status, 0)
status_priority(s) ==
    CASE s = ONLINE -> 3
      [] s = UNKNOWN -> 2
      [] s = OFFLINE -> 1
      [] OTHER -> 0

\* Mutant: the comparison the wrong way round
_is_better_status_Reversed(new_status, current_status) ==
    status_priority(new_status) < status_priority(current_status)

_is_better_status(new_status, current_status) ==
    status_priority(new_status) > status_priority(current_status)

preferred_prefixes == <<T_dhcp_lease, T_arp_entry, T_snmp, T_netbios>>

_is_more_specific_device_type(new_type, current_type) ==
    IF ~TruthyType(new_type) THEN FALSE
    ELSE IF ~TruthyType(current_type) THEN TRUE
    ELSE IF Len(Split(new_type)) > Len(Split(current_type)) THEN TRUE
    ELSE \E k \in DOMAIN preferred_prefixes :
            /\ StartsWith(new_type, preferred_prefixes[k])
            /\ ~StartsWith(current_type, preferred_prefixes[k])

\* Mutant: a non-empty candidate always overwrites
merge_mac_address_Overwrite(cur, new) ==
    IF Truthy(new) THEN new ELSE cur

\* if not merged['mac_address'] and other_host.mac_address
merge_mac_address(cur, new) ==
    IF ~Truthy(cur) /\ Truthy(new) THEN new ELSE cur

\* Mutant: an equally long candidate replaces the value
merge_hostname_OrEqual(cur, new) ==
    IF ~Truthy(cur) \/ (Truthy(new) /\ Len(new) >= LenOrEmpty(cur))
    THEN new ELSE cur

\* if not merged['hostname'] or (other_host.hostname and len(...) > len(...))
merge_hostname(cur, new) ==
    IF ~Truthy(cur) \/ (Truthy(new) /\ Len(new) > LenOrEmpty(cur))
    THEN new ELSE cur

\* if not merged['vendor'] and other_host.vendor
merge_vendor(cur, new) ==
    IF ~Truthy(cur) /\ Truthy(new) THEN new ELSE cur

\* if not merged['device_type'] or _is_more_specific_device_type(...)
merge_device_type(cur, new) ==
    IF ~TruthyType(cur) \/ _is_more_specific_device_type(new, cur)
    THEN new ELSE cur

\* if not merged['os_info'] or (other_host.os_info and len(...) > len(...))
merge_os_info(cur, new) ==
    IF ~Truthy(cur) \/ (Truthy(new) /\ Len(new) > LenOrEmpty(cur))
    THEN new ELSE cur

\* if not merged['notes'] and other_host.notes
merge_notes(cur, new) ==
    IF ~Truthy(cur) /\ Truthy(new) THEN new ELSE cur

\* Mutant: the seed's method is kept
merge_discovery_method_Keep(cur, new) == cur

\* if get_method_quality(other) > get_method_quality(base)
merge_discovery_method(cur, new) ==
    IF get_method_quality(new) > get_method_quality(cur) THEN new ELSE cur

\* if _is_better_status(other_host.status, merged['status'])
merge_status(cur, new) ==
    IF _is_better_status(new, cur) THEN new ELSE cur

\* Mutant: the other observation's value is always taken
merge_inferred_Replace(cur, new) == new

\* if not merged.get('inferred_os') and other_host.inferred_os (and likewise
\* inferred_device_type)
merge_inferred(cur, new) ==
    IF ~Truthy(cur) /\ Truthy(new) THEN new ELSE cur

\* if not merged.get('inference_confidence') and other_host.inference_confidence
merge_inference_confidence(cur, new) ==
    IF cur \in {NoConfidence, 0} /\ new \notin {NoConfidence, 0}
    THEN new ELSE cur

\* One step of the fold: base_data is the canonical record so far.  ip_address,
\* last_seen and wol_enabled are not assigned.
_merge_host_data(base_data, other_host) ==
    [base_data EXCEPT
        !.mac_address = merge_mac_address(@, other_host.mac_address),
        !.hostname = merge_hostname(@, other_host.hostname),
        !.vendor = merge_vendor(@, other_host.vendor),
        !.device_type = merge_device_type(@, other_host.device_type),
        !.os_info = merge_os_info(@, other_host.os_info),
        !.notes = merge_notes(@, other_host.notes),
        !.discovery_method =
            merge_discovery_method(@, other_host.discovery_method),
        !.status = merge_status(@, other_host.status),
        !.inferred_os = merge_inferred(@, other_host.inferred_os),
        !.inferred_device_type =
            merge_inferred(@, other_host.inferred_device_type),
        !.inference_confidence =
            merge_inference_confidence(@, other_host.inference_confidence)]

\* s without its i-th element
RemoveAt(s, i) == SubSeq(s, 1, i - 1) \o SubSeq(s, i + 1, Len(s))

\* scored_hosts.sort(key=score, reverse=True): descending, stable
RECURSIVE SortByScore(_)
SortByScore(s) ==
    IF s = <<>> THEN <<>>
    ELSE LET best == CHOOSE i \in DOMAIN s :
                        \A j \in DOMAIN s :
                            \/ score_host(s[i]) > score_host(s[j])
                            \/ score_host(s[i]) = score_host(s[j]) /\ i <= j
         IN <<s[best]>> \o SortByScore(RemoveAt(s, best))

\* for score, host in scored_hosts[1:]: merged_data = _merge_host_data(...)
RECURSIVE FoldHosts(_, _)
FoldHosts(merged_data, rest) ==
    IF rest = <<>> THEN merged_data
    ELSE FoldHosts(_merge_host_data(merged_data, Head(rest)), Tail(rest))

_merge_host_group(group) ==
    IF Len(group) = 1 THEN group[1]
    ELSE LET scored_hosts == SortByScore(group)
         IN FoldHosts(scored_hosts[1], Tail(scored_hosts))

\* Mutant: every observation opens a group of its own IP
RECURSIVE IpOrder_NoDedup(_, _)
IpOrder_NoDedup(hs, seen) ==
    IF hs = <<>> THEN seen
    ELSE IpOrder_NoDedup(Tail(hs), Append(seen, Head(hs).ip_address))

\* The keys of ip_groups, in insertion order
RECURSIVE IpOrder(_, _)
IpOrder(hs, seen) ==
    IF hs = <<>> THEN seen
    ELSE IF \E k \in DOMAIN seen : seen[k] = Head(hs).ip_address
         THEN IpOrder(Tail(hs), seen)
         ELSE IpOrder(Tail(hs), Append(seen, Head(hs).ip_address))

\* ip_groups[ip]
IpGroup(hs, ip) == SelectSeq(hs, LAMBDA h : h.ip_address = ip)

\* Mutant: each merged record is put at the front of the result
merge_hosts_Front(hs) ==
    IF hs = <<>> THEN hs
    ELSE LET ips == IpOrder(hs, <<>>)
         IN [k \in DOMAIN ips |->
                LET host_list == IpGroup(hs, ips[Len(ips) + 1 - k])
                IN IF Len(host_list) = 1 THEN host_list[1]
                   ELSE _merge_host_group(host_list)]

merge_hosts(hs) ==
    IF hs = <<>> THEN hs
    ELSE LET ips == IpOrder(hs, <<>>)
         IN [k \in DOMAIN ips |->
                LET host_list == IpGroup(hs, ips[k])
                IN IF Len(host_list) = 1 THEN host_list[1]
                   ELSE _merge_host_group(host_list)]

(***************************************************************************)
(* Inputs of the merge: lists of at most MaxObs observations, all drawn    *)
(* from one family.  Each family varies the fields one merge rule reads,   *)
(* together with the discovery method and enough other fields that the     *)
(* quality order of two observations goes both ways.                       *)
(***************************************************************************)
IP1 == "10.0.0.5"
IP2 == "10.0.0.6"
MAC1 == "AA:BB:CC:DD:EE:FF"
MAC2 == "11:22:33:44:55:66"
Times == 0..MaxTime

Rich(h) ==
    [h EXCEPT !.mac_address = MAC1, !.hostname = "pc", !.vendor = "Dell",
              !.os_info = "Linux"]

ByIp ==
    {[Host(ip, m) EXCEPT !.hostname = n] :
        ip \in {IP1, IP2}, m \in {ROUTEROS_API, ROUTEROS_REST},
        n \in {None, "pc", "nas-01"}}

ByStatus ==
    {[Host(IP1, m) EXCEPT !.status = st, !.mac_address = mac] :
        m \in {ROUTEROS_API, ROUTEROS_REST}, st \in HostStatus,
        mac \in {None, MAC1}}

ByMethod ==
    {Host(IP1, m) : m \in DiscoveryMethod \cup {None}}
    \cup {Rich(Host(IP1, m)) : m \in DiscoveryMethod \cup {None}}

ByType ==
    {[Host(IP1, m) EXCEPT !.device_type = t] :
        m \in {ROUTEROS_API, ROUTEROS_REST},
        t \in {NoneType, <<>>, T_arp_entry, T_dhcp_lease, T_snmp_arp,
               T_windows, T_dhcp_lease_active_mobile_device}}

ByMac ==
    {[Host(IP1, m) EXCEPT !.mac_address = v] :
        m \in {ROUTEROS_API, ROUTEROS_REST, ARP},
        v \in {None, "", MAC1, MAC2}}

ByVendor ==
    {[Host(IP1, m) EXCEPT !.vendor = v] :
        m \in {ROUTEROS_API, ROUTEROS_REST, ARP},
        v \in {None, "", "Dell", "Apple"}}

ByNotes ==
    {[Host(IP1, m) EXCEPT !.notes = v] :
        m \in {ROUTEROS_API, ROUTEROS_REST},
        v \in {None, "", "printer", "router"}}

ByTime ==
    {[Host(IP1, m) EXCEPT !.last_seen = t, !.mac_address = mac] :
        m \in {ROUTEROS_API, ROUTEROS_REST}, t \in Times,
        mac \in {None, MAC1}}

ByHostname ==
    {[Host(IP1, m) EXCEPT !.hostname = n] :
        m \in {ROUTEROS_API, ROUTEROS_REST},
        n \in {None, "", "pc", "tv", "nas-01"}}

ByOsInfo ==
    {[Host(IP1, m) EXCEPT !.os_info = o] :
        m \in {ROUTEROS_API, ROUTEROS_REST},
        o \in {None, "", "Linux", "macOS",
               "Interface: ether1-ab", "Interface: ether1-abc",
               "Windows 10; Inferred OS: Windows"}}

ByInferred ==
    {[Host(IP1, m) EXCEPT !.inferred_os = i[1],
                          !.inferred_device_type = i[2],
                          !.wol_enabled = w] :
        m \in {ROUTEROS_API, ROUTEROS_REST},
        i \in {<<None, None>>, <<"Windows", "computer">>, <<"iOS", None>>,
               <<None, "mobile_device">>},
        w \in BOOLEAN}

Families ==
    {ByIp, ByStatus, ByMethod, ByType, ByMac, ByVendor, ByNotes, ByTime,
     ByHostname, ByOsInfo, ByInferred}

ListsOver(U) == UNION {[1..n -> U] : n \in 0..MaxObs}

(***************************************************************************)
(* The merge harness: merge_hosts applied to an input list, then to its    *)
(* own result.                                                             *)
(***************************************************************************)
MergeInit ==
    /\ hosts \in UNION {ListsOver(U) : U \in Families}
    /\ merged = <<>>
    /\ remerged = <<>>
    /\ mpc = "input"

Merge ==
    /\ mpc = "input"
    /\ merged' = merge_hosts(hosts)
    /\ mpc' = "merged"
    /\ UNCHANGED <<hosts, remerged, hvars, ovars, svars, envvars>>

Remerge ==
    /\ mpc = "merged"
    /\ remerged' = merge_hosts(merged)
    /\ mpc' = "remerged"
    /\ UNCHANGED <<hosts, merged, hvars, ovars, svars, envvars>>

MergeNext == Merge \/ Remerge

(***************************************************************************)
(* DHCPAnalyzer (app/services/dhcp_analyzer.py).  The strings it searches  *)
(* are sequences of one-character strings; None is NoneType.               *)
(***************************************************************************)
\* c.lower() of one character
LowerChar(c) ==
    CASE
         c = "A" -> "a"
      [] c = "B" -> "b"
      [] c = "C" -> "c"
      [] c = "D" -> "d"
      [] c = "E" -> "e"
      [] c = "F" -> "f"
      [] c = "G" -> "g"
      [] c = "H" -> "h"
      [] c = "I" -> "i"
      [] c = "J" -> "j"
      [] c = "K" -> "k"
      [] c = "L" -> "l"
      [] c = "M" -> "m"
      [] c = "N" -> "n"
      [] c = "O" -> "o"
      [] c = "P" -> "p"
      [] c = "Q" -> "q"
      [] c = "R" -> "r"
      [] c = "S" -> "s"
      [] c = "T" -> "t"
      [] c = "U" -> "u"
      [] c = "V" -> "v"
      [] c = "W" -> "w"
      [] c = "X" -> "x"
      [] c = "Y" -> "y"
      [] c = "Z" -> "z"
      [] OTHER -> c

\* c.upper() of one character
UpperChar(c) ==
    CASE
         c = "a" -> "A"
      [] c = "b" -> "B"
      [] c = "c" -> "C"
      [] c = "d" -> "D"
      [] c = "e" -> "E"
      [] c = "f" -> "F"
      [] c = "g" -> "G"
      [] c = "h" -> "H"
      [] c = "i" -> "I"
      [] c = "j" -> "J"
      [] c = "k" -> "K"
      [] c = "l" -> "L"
      [] c = "m" -> "M"
      [] c = "n" -> "N"
      [] c = "o" -> "O"
      [] c = "p" -> "P"
      [] c = "q" -> "Q"
      [] c = "r" -> "R"
      [] c = "s" -> "S"
      [] c = "t" -> "T"
      [] c = "u" -> "U"
      [] c = "v" -> "V"
      [] c = "w" -> "W"
      [] c = "x" -> "X"
      [] c = "y" -> "Y"
      [] c = "z" -> "Z"
      [] OTHER -> c

\* s.lower(), s.upper()
Lower(s) == [i \in DOMAIN s |-> LowerChar(s[i])]

Upper(s) == [i \in DOMAIN s |-> UpperChar(s[i])]

\* k in s, for a non-empty k
Contains(s, k) ==
    \E i \in 1..(Len(s) - Len(k) + 1) : SubSeq(s, i, i + Len(k) - 1) = k

\* any(keyword in s for keyword in ks)
AnyIn(ks, s) == \E k \in ks : Contains(s, k)

HexLower == {"0", "1", "2", "3", "4", "5", "6", "7", "8", "9",
             "a", "b", "c", "d", "e", "f"}

Digits == {"0", "1", "2", "3", "4", "5", "6", "7", "8", "9"}

\* s.split(':')
RECURSIVE SplitColonFrom(_, _, _)
SplitColonFrom(s, i, cur) ==
    IF i > Len(s) THEN <<cur>>
    ELSE IF s[i] = ":" THEN <<cur>> \o SplitColonFrom(s, i + 1, <<>>)
    ELSE SplitColonFrom(s, i + 1, Append(cur, s[i]))

\* s.strip() of blanks
RECURSIVE Strip(_)
Strip(s) ==
    IF s = <<>> THEN s
    ELSE IF Head(s) = " " THEN Strip(Tail(s))
    ELSE IF s[Len(s)] = " " THEN Strip(SubSeq(s, 1, Len(s) - 1))
    ELSE s

\* The longest prefix of s without ';'
RECURSIVE UpToSemicolon(_)
UpToSemicolon(s) ==
    IF s = <<>> \/ Head(s) = ";" THEN <<>>
    ELSE <<Head(s)>> \o UpToSemicolon(Tail(s))

\* re.search(key + r'\s*([^;]+)', os_info, re.IGNORECASE), then
\* group(1).strip(): the leftmost occurrence of key that is followed by a
\* character other than ';' matches, and the group is what follows key up to
\* the next ';'; '' when there is no match
ExtractAfter(os_info, key) ==
    LET at(i) == /\ Lower(SubSeq(os_info, i, i + Len(key) - 1)) = Lower(key)
                 /\ i + Len(key) <= Len(os_info)
                 /\ os_info[i + Len(key)] # ";"
        hits == {i \in 1..(Len(os_info) - Len(key)) : at(i)}
    IN IF hits = {} THEN <<>>
       ELSE LET i == CHOOSE j \in hits : \A k \in hits : j <= k
            IN Strip(UpToSemicolon(
                         SubSeq(os_info, i + Len(key), Len(os_info))))

_extract_client_id(os_info) ==
    IF os_info = <<>> THEN <<>> ELSE ExtractAfter(os_info, <<"C", "l", "i", "e", "n", "t", "-", "I", "D", ":">>)

_extract_comment(os_info) ==
    IF os_info = <<>> THEN <<>> ELSE ExtractAfter(os_info, <<"C", "o", "m", "m", "e", "n", "t", ":">>)

_extract_class_id(os_info) ==
    IF os_info = <<>> THEN <<>> ELSE ExtractAfter(os_info, <<"C", "l", "a", "s", "s", "-", "I", "D", ":">>)

\* OUI_VENDORS.get(oui)
OUI_VENDORS(oui) ==
    CASE
         oui = <<"0", "0", "0", "0", "0", "0">> -> <<"X", "e", "r", "o", "x">>
      [] oui = <<"0", "0", "0", "0", "0", "C">> -> <<"C", "i", "s", "c", "o">>
      [] oui = <<"0", "0", "0", "1", "4", "F">> -> <<"D", "e", "l", "l">>
      [] oui = <<"0", "0", "0", "1", "6", "3">> -> <<"A", "p", "p", "l", "e">>
      [] oui = <<"0", "0", "0", "3", "F", "F">> -> <<"M", "i", "c", "r", "o", "s", "o", "f", "t">>
      [] oui = <<"0", "0", "0", "4", "2", "0">> -> <<"I", "n", "t", "e", "l">>
      [] oui = <<"0", "0", "0", "5", "9", "A">> -> <<"H", "P">>
      [] oui = <<"0", "0", "0", "A", "9", "5">> -> <<"N", "e", "t", "g", "e", "a", "r">>
      [] oui = <<"0", "0", "0", "C", "2", "9">> -> <<"V", "M", "w", "a", "r", "e">>
      [] oui = <<"0", "0", "1", "5", "5", "D">> -> <<"M", "i", "c", "r", "o", "s", "o", "f", "t", " ", "H", "y", "p", "e", "r", "-", "V">>
      [] oui = <<"0", "0", "1", "6", "3", "E">> -> <<"X", "e", "n">>
      [] oui = <<"0", "0", "1", "A", "2", "B">> -> <<"T", "P", "-", "L", "i", "n", "k">>
      [] oui = <<"0", "0", "1", "B", "4", "4">> -> <<"C", "i", "s", "c", "o", " ", "S", "y", "s", "t", "e", "m", "s">>
      [] oui = <<"0", "0", "1", "C", "1", "4">> -> <<"V", "M", "w", "a", "r", "e">>
      [] oui = <<"0", "0", "1", "C", "4", "2">> -> <<"P", "a", "r", "a", "l", "l", "e", "l", "s">>
      [] oui = <<"0", "0", "5", "0", "5", "6">> -> <<"V", "M", "w", "a", "r", "e">>
      [] oui = <<"0", "8", "0", "0", "2", "7">> -> <<"O", "r", "a", "c", "l", "e", " ", "V", "i", "r", "t", "u", "a", "l", "B", "o", "x">>
      [] oui = <<"0", "A", "0", "0", "2", "7">> -> <<"O", "r", "a", "c", "l", "e", " ", "V", "i", "r", "t", "u", "a", "l", "B", "o", "x">>
      [] oui = <<"1", "4", "D", "D", "A", "9">> -> <<"A", "S", "U", "S", "T", "e", "k">>
      [] oui = <<"1", "4", "8", "8", "A", "9">> -> <<"A", "S", "U", "S", "T", "e", "K", " ", "C", "o", "m", "p", "u", "t", "e", "r">>
      [] oui = <<"1", "A", "C", "3", "A", "F">> -> <<"A", "p", "p", "l", "e">>
      [] oui = <<"5", "2", "5", "4", "0", "0">> -> <<"Q", "E", "M", "U">>
      [] oui = <<"7", "0", "8", "5", "C", "2">> -> <<"D", "e", "l", "l">>
      [] oui = <<"8", "0", "C", "A", "4", "B">> -> <<"X", "i", "a", "o", "m", "i">>
      [] oui = <<"A", "8", "A", "1", "5", "9">> -> <<"L", "G", " ", "E", "l", "e", "c", "t", "r", "o", "n", "i", "c", "s">>
      [] oui = <<"D", "8", "5", "0", "E", "6">> -> <<"T", "P", "-", "L", "i", "n", "k">>
      [] oui = <<"D", "8", "5", "E", "D", "3">> -> <<"A", "p", "p", "l", "e">>
      [] OTHER -> NoneType

_detect_vendor_from_mac(mac_address) ==
    IF mac_address = <<>> \/ Len(mac_address) < 8 THEN NoneType
    ELSE LET mac_parts == SplitColonFrom(mac_address, 1, <<>>)
         IN IF Len(mac_parts) >= 3
            THEN OUI_VENDORS(Upper(mac_parts[1] \o mac_parts[2] \o mac_parts[3]))
            ELSE NoneType

_detect_os_from_class_id(class_id) ==
    LET class_id_lower == Lower(class_id)
        has(k) == Contains(class_id_lower, k)
    IN IF class_id = <<>> THEN NoneType
       ELSE IF has(<<"m", "s", "f", "t">>)
       THEN (IF has(<<"5", ".", "0">>) THEN <<"W", "i", "n", "d", "o", "w", "s", " ", "2", "0", "0", "0">>
             ELSE IF has(<<"6", ".", "0">>) THEN <<"W", "i", "n", "d", "o", "w", "s", " ", "V", "i", "s", "t", "a", "/", "S", "e", "r", "v", "e", "r", " ", "2", "0", "0", "8">>
             ELSE IF has(<<"6", ".", "1">>) THEN <<"W", "i", "n", "d", "o", "w", "s", " ", "7", "/", "S", "e", "r", "v", "e", "r", " ", "2", "0", "0", "8", " ", "R", "2">>
             ELSE IF has(<<"6", ".", "2">>) THEN <<"W", "i", "n", "d", "o", "w", "s", " ", "8", "/", "S", "e", "r", "v", "e", "r", " ", "2", "0", "1", "2">>
             ELSE IF has(<<"6", ".", "3">>) THEN <<"W", "i", "n", "d", "o", "w", "s", " ", "8", ".", "1", "/", "S", "e", "r", "v", "e", "r", " ", "2", "0", "1", "2", " ", "R", "2">>
             ELSE IF has(<<"1", "0", ".", "0">>) THEN <<"W", "i", "n", "d", "o", "w", "s", " ", "1", "0", "/", "1", "1", "/", "S", "e", "r", "v", "e", "r", " ", "2", "0", "1", "6", "+">>
             ELSE <<"W", "i", "n", "d", "o", "w", "s", " ", "(", "U", "n", "k", "n", "o", "w", "n", " ", "V", "e", "r", "s", "i", "o", "n", ")">>)
       ELSE IF has(<<"a", "n", "d", "r", "o", "i", "d">>)
       THEN (IF has(<<"d", "h", "c", "p", "-", "1", "3">>) THEN <<"A", "n", "d", "r", "o", "i", "d", " ", "1", "3", "+">>
             ELSE IF has(<<"d", "h", "c", "p", "-", "1", "2">>) THEN <<"A", "n", "d", "r", "o", "i", "d", " ", "1", "2">>
             ELSE IF has(<<"d", "h", "c", "p", "-", "1", "1">>) THEN <<"A", "n", "d", "r", "o", "i", "d", " ", "1", "1">>
             ELSE IF has(<<"d", "h", "c", "p", "-", "1", "0">>) THEN <<"A", "n", "d", "r", "o", "i", "d", " ", "1", "0">>
             ELSE <<"A", "n", "d", "r", "o", "i", "d", " ", "(", "U", "n", "k", "n", "o", "w", "n", " ", "V", "e", "r", "s", "i", "o", "n", ")">>)
       ELSE IF has(<<"i", "p", "h", "o", "n", "e">>) \/ has(<<"i", "p", "a", "d">>) THEN <<"i", "O", "S">>
       ELSE IF has(<<"l", "i", "n", "u", "x">>) \/ has(<<"u", "b", "u", "n", "t", "u">>) \/ has(<<"d", "e", "b", "i", "a", "n">>)
       THEN <<"L", "i", "n", "u", "x">>
       ELSE IF has(<<"r", "o", "u", "t", "e", "r", "o", "s">>) \/ has(<<"m", "i", "k", "r", "o", "t", "i", "k">>) THEN <<"R", "o", "u", "t", "e", "r", "O", "S">>
       ELSE IF has(<<"u", "d", "h", "c", "p">>) THEN <<"L", "i", "n", "u", "x", " ", "(", "u", "d", "h", "c", "p", " ", "c", "l", "i", "e", "n", "t", ")">>
       ELSE IF has(<<"l", "g", "u", "a", "p">>) THEN <<"L", "G", " ", "U", "+", " ", "A", "P", " ", "(", "C", "u", "s", "t", "o", "m", ")">>
       ELSE NoneType

\* re.match(r'^1:([0-9a-f]{2}:){5}[0-9a-f]{1,2}$', client_id)
IsMacClientId(s) ==
    /\ Len(s) \in {18, 19}
    /\ s[1] = "1" /\ s[2] = ":"
    /\ \A g \in 0..4 :
          /\ s[3 + 3 * g] \in HexLower
          /\ s[4 + 3 * g] \in HexLower
          /\ s[5 + 3 * g] = ":"
    /\ \A i \in 18..Len(s) : s[i] \in HexLower

\* re.match(r'^msft \d+\.\d+', client_id_lower)
IsMsftClientId(s) ==
    /\ Len(s) >= 8
    /\ SubSeq(s, 1, 5) = <<"m", "s", "f", "t", " ">>
    /\ \E i \in 6..(Len(s) - 2) :
          /\ \A k \in 6..i : s[k] \in Digits
          /\ s[i + 1] = "."
          /\ s[i + 2] \in Digits

_detect_os_from_client_id(client_id, vendor) ==
    LET client_id_lower == Lower(client_id)
        has(k) == Contains(client_id_lower, k)
        vendor_lower == Lower(vendor)
    IN IF client_id = <<>> THEN NoneType
       ELSE IF IsMacClientId(client_id)
       THEN (IF TruthyType(vendor) /\ Contains(vendor_lower, <<"a", "p", "p", "l", "e">>)
             THEN <<"m", "a", "c", "O", "S">>
             ELSE IF TruthyType(vendor)
                     /\ (\/ Contains(vendor_lower, <<"i", "n", "t", "e", "l">>)
                         \/ Contains(vendor_lower, <<"d", "e", "l", "l">>)
                         \/ Contains(vendor_lower, <<"h", "p">>))
             THEN <<"W", "i", "n", "d", "o", "w", "s">>
             ELSE IF TruthyType(vendor) /\ Contains(vendor_lower, <<"x", "i", "a", "o", "m", "i">>)
             THEN <<"A", "n", "d", "r", "o", "i", "d">>
             ELSE <<"W", "i", "n", "d", "o", "w", "s">>)
       ELSE IF IsMsftClientId(client_id_lower) THEN <<"W", "i", "n", "d", "o", "w", "s">>
       ELSE IF has(<<"a", "n", "d", "r", "o", "i", "d">>) \/ has(<<"d", "h", "c", "p", "-", "1">>) THEN <<"A", "n", "d", "r", "o", "i", "d">>
       ELSE IF has(<<"i", "p", "h", "o", "n", "e">>) \/ has(<<"i", "p", "a", "d">>) THEN <<"i", "O", "S">>
       ELSE IF has(<<"d", "h", "c", "p", "c", "d">>) \/ has(<<"u", "d", "h", "c", "p">>) \/ has(<<"i", "s", "c", "-", "d", "h", "c", "l", "i", "e", "n", "t">>)
       THEN <<"L", "i", "n", "u", "x">>
       ELSE NoneType

\* The keyword lists of _determine_enhanced_device_type
NetworkKeywords ==
    {<<"r", "o", "u", "t", "e", "r">>,
     <<"g", "a", "t", "e", "w", "a", "y">>,
     <<"s", "w", "i", "t", "c", "h">>,
     <<"a", "p", "-">>,
     <<"a", "c", "c", "e", "s", "s", "-", "p", "o", "i", "n", "t">>,
     <<"r", "t", "-">>,
     <<"a", "c", "3", "2", "0", "0">>}

MobileKeywords ==
    {<<"i", "p", "h", "o", "n", "e">>,
     <<"i", "p", "a", "d">>,
     <<"a", "n", "d", "r", "o", "i", "d">>,
     <<"m", "o", "b", "i", "l", "e">>,
     <<"p", "h", "o", "n", "e">>,
     <<"t", "a", "b", "l", "e", "t">>}

ComputerKeywords ==
    {<<"p", "c">>,
     <<"l", "a", "p", "t", "o", "p">>,
     <<"d", "e", "s", "k", "t", "o", "p">>,
     <<"c", "o", "m", "p", "u", "t", "e", "r">>,
     <<"w", "o", "r", "k", "s", "t", "a", "t", "i", "o", "n">>,
     <<"r", "i", "g", "h", "t", "-", "c", "o", "m", "p", "u", "t", "e", "r">>}

ServerKeywords ==
    {<<"s", "e", "r", "v", "e", "r">>,
     <<"s", "r", "v">>,
     <<"n", "a", "s">>,
     <<"b", "a", "c", "k", "u", "p">>}

IotKeywords ==
    {<<"i", "o", "t">>,
     <<"s", "m", "a", "r", "t">>,
     <<"s", "e", "n", "s", "o", "r">>,
     <<"c", "a", "m", "e", "r", "a">>,
     <<"d", "o", "o", "r", "b", "e", "l", "l">>}

GamingKeywords ==
    {<<"p", "s", "4">>,
     <<"p", "s", "5">>,
     <<"x", "b", "o", "x">>,
     <<"n", "i", "n", "t", "e", "n", "d", "o">>,
     <<"g", "a", "m", "i", "n", "g">>}

\* The device types the classifier returns
D_network_device == <<"n", "e", "t", "w", "o", "r", "k", "_", "d", "e", "v", "i", "c", "e">>
D_mobile_device == <<"m", "o", "b", "i", "l", "e", "_", "d", "e", "v", "i", "c", "e">>
D_computer == <<"c", "o", "m", "p", "u", "t", "e", "r">>
D_server == <<"s", "e", "r", "v", "e", "r">>
D_iot_device == <<"i", "o", "t", "_", "d", "e", "v", "i", "c", "e">>
D_gaming_device == <<"g", "a", "m", "i", "n", "g", "_", "d", "e", "v", "i", "c", "e">>
D_printer == <<"p", "r", "i", "n", "t", "e", "r">>
D_media_device == <<"m", "e", "d", "i", "a", "_", "d", "e", "v", "i", "c", "e">>
D_dhcp_client == <<"d", "h", "c", "p", "_", "c", "l", "i", "e", "n", "t">>

_determine_enhanced_device_type(hostname, client_id, comment, class_id, os_info) ==
    LET hostname_lower == Lower(hostname)
        client_id_lower == Lower(client_id)
        comment_lower == Lower(comment)
        class_id_lower == Lower(class_id)
        os_has(k) == TruthyType(os_info) /\ Contains(Lower(os_info), k)
    IN IF AnyIn(NetworkKeywords, hostname_lower) THEN D_network_device
       ELSE IF AnyIn(MobileKeywords, hostname_lower) THEN D_mobile_device
       ELSE IF AnyIn(ComputerKeywords, hostname_lower) THEN D_computer
       ELSE IF AnyIn(ServerKeywords, hostname_lower) THEN D_server
       ELSE IF AnyIn(IotKeywords, hostname_lower) THEN D_iot_device
       ELSE IF AnyIn(GamingKeywords, hostname_lower) THEN D_gaming_device
       ELSE IF Contains(client_id_lower, <<"a", "n", "d", "r", "o", "i", "d">>) THEN D_mobile_device
       ELSE IF \/ Contains(client_id_lower, <<"i", "p", "h", "o", "n", "e">>)
               \/ Contains(client_id_lower, <<"i", "p", "a", "d">>)
       THEN D_mobile_device
       ELSE IF AnyIn({<<"p", "r", "i", "n", "t", "e", "r">>, <<"p", "r", "i", "n", "t">>}, comment_lower) THEN D_printer
       ELSE IF AnyIn({<<"t", "v">>, <<"t", "e", "l", "e", "v", "i", "s", "i", "o", "n">>, <<"s", "m", "a", "r", "t", "-", "t", "v">>}, comment_lower)
       THEN D_media_device
       ELSE IF Contains(class_id_lower, <<"m", "s", "f", "t">>) THEN D_computer
       ELSE IF Contains(class_id_lower, <<"a", "n", "d", "r", "o", "i", "d">>) THEN D_mobile_device
       ELSE IF \/ Contains(class_id_lower, <<"i", "p", "h", "o", "n", "e">>)
               \/ Contains(class_id_lower, <<"i", "p", "a", "d">>)
       THEN D_mobile_device
       ELSE IF os_has(<<"w", "i", "n", "d", "o", "w", "s">>) THEN D_computer
       ELSE IF os_has(<<"a", "n", "d", "r", "o", "i", "d">>) THEN D_mobile_device
       ELSE IF os_has(<<"i", "o", "s">>) THEN D_mobile_device
       ELSE IF os_has(<<"l", "i", "n", "u", "x">>) THEN D_computer
       ELSE IF \E p \in {<<"w", "i", "n", "-">>, <<"d", "e", "s", "k", "t", "o", "p", "-">>, <<"l", "a", "p", "t", "o", "p", "-">>} :
                  StartsWith(hostname_lower, p)
       THEN D_computer
       ELSE IF \E p \in {<<"a", "n", "d", "r", "o", "i", "d", "-">>, <<"i", "p", "h", "o", "n", "e", "-">>, <<"i", "p", "a", "d", "-">>} :
                  StartsWith(hostname_lower, p)
       THEN D_mobile_device
       ELSE D_dhcp_client

\* The confidence without the cap
_calculate_confidence_Uncapped(hostname, client_id, comment, class_id, os_detected, vendor) ==
    (IF hostname # <<>> THEN 10 ELSE 0)
    + (IF client_id # <<>> THEN 20 ELSE 0)
    + (IF comment # <<>> THEN 15 ELSE 0)
    + (IF class_id # <<>> THEN 25 ELSE 0)
    + (IF TruthyType(os_detected) THEN 30 ELSE 0)
    + (IF TruthyType(vendor) THEN 20 ELSE 0)
    + (IF AnyIn({<<"r", "o", "u", "t", "e", "r">>, <<"g", "a", "t", "e", "w", "a", "y">>, <<"s", "w", "i", "t", "c", "h">>, <<"a", "p", "-">>}, Lower(hostname))
       THEN 15 ELSE 0)
    + (IF AnyIn({<<"i", "p", "h", "o", "n", "e">>, <<"i", "p", "a", "d">>, <<"a", "n", "d", "r", "o", "i", "d">>}, Lower(hostname)) THEN 15 ELSE 0)
    + (IF AnyIn({<<"p", "c">>, <<"l", "a", "p", "t", "o", "p">>, <<"d", "e", "s", "k", "t", "o", "p">>}, Lower(hostname)) THEN 15 ELSE 0)

_calculate_confidence(hostname, client_id, comment, class_id, os_detected, vendor) ==
    LET confidence ==
            (IF hostname # <<>> THEN 10 ELSE 0)
            + (IF client_id # <<>> THEN 20 ELSE 0)
            + (IF comment # <<>> THEN 15 ELSE 0)
            + (IF class_id # <<>> THEN 25 ELSE 0)
            + (IF TruthyType(os_detected) THEN 30 ELSE 0)
            + (IF TruthyType(vendor) THEN 20 ELSE 0)
            + (IF AnyIn({<<"r", "o", "u", "t", "e", "r">>, <<"g", "a", "t", "e", "w", "a", "y">>, <<"s", "w", "i", "t", "c", "h">>, <<"a", "p", "-">>}, Lower(hostname))
               THEN 15 ELSE 0)
            + (IF AnyIn({<<"i", "p", "h", "o", "n", "e">>, <<"i", "p", "a", "d">>, <<"a", "n", "d", "r", "o", "i", "d">>}, Lower(hostname))
               THEN 15 ELSE 0)
            + (IF AnyIn({<<"p", "c">>, <<"l", "a", "p", "t", "o", "p">>, <<"d", "e", "s", "k", "t", "o", "p">>}, Lower(hostname))
               THEN 15 ELSE 0)
    IN IF confidence < 100 THEN confidence ELSE 100

\* x or '' of an Optional[str]
OrEmpty(v) == IF v = NoneType THEN <<>> ELSE v

\* _enhanced_device_detection: (device_type, os_info, vendor)
_enhanced_device_detection(hostname, client_id, comment, class_id, mac_address) ==
    LET vendor == _detect_vendor_from_mac(mac_address)
        by_class == _detect_os_from_class_id(class_id)
        os_info == IF TruthyType(by_class) THEN by_class
                   ELSE _detect_os_from_client_id(client_id, vendor)
    IN [device_type |-> _determine_enhanced_device_type(
                            hostname, client_id, comment, class_id, os_info),
        os |-> os_info,
        vendor |-> vendor]

\* analyze_dhcp_lease(lease_data): the dictionary it returns, with the fields
\* it read from os_info kept aside
analyze_dhcp_lease(lease_data) ==
    LET mac_address == Upper(lease_data.mac_address)
        hostname == OrEmpty(lease_data.hostname)
        os_info_str == OrEmpty(lease_data.os_info)
        client_id == _extract_client_id(os_info_str)
        comment == _extract_comment(os_info_str)
        class_id == _extract_class_id(os_info_str)
        d == _enhanced_device_detection(hostname, client_id, comment,
                                        class_id, mac_address)
    IN [device_type |-> d.device_type,
        os |-> d.os,
        vendor |-> d.vendor,
        confidence |-> _calculate_confidence(hostname, client_id, comment,
                                             class_id, d.os, d.vendor),
        hostname |-> hostname,
        client_id |-> client_id,
        comment |-> comment,
        class_id |-> class_id]

(***************************************************************************)
(* The analysis harness: leases are analysed one after the other, each     *)
(* becomes an observation of the RouterOS API provider, and the            *)
(* observations are merged.                                                *)
(***************************************************************************)
MaxLeases == 2  \* leases analysed before the merge

LeaseHostnames ==
    {<<>>,
     <<"r", "o", "u", "t", "e", "r">>,
     <<"i", "P", "h", "o", "n", "e", "-", "p", "c">>,
     <<"n", "a", "s">>,
     <<"t", "v">>}

ClientIds == {<<>>, <<"1", ":", "a", "a", ":", "b", "b", ":", "c", "c", ":", "d", "d", ":", "e", "e", ":", "f", "f">>}

Comments == {<<>>, <<"S", "w", "i", "t", "c", "h">>, <<"p", "r", "i", "n", "t", "e", "r">>}

ClassIds == {<<>>, <<"M", "S", "F", "T", " ", "5", ".", "0">>, <<"a", "n", "d", "r", "o", "i", "d", "-", "d", "h", "c", "p", "-", "1", "3">>}

LeaseMacs == {<<"d", "8", ":", "5", "e", ":", "d", "3", ":", "0", "0", ":", "0", "0", ":", "0", "1">>, <<"A", "A", ":", "B", "B", ":", "C", "C", ":", "D", "D", ":", "E", "E", ":", "F", "F">>}

\* '; '.join(parts), None for no parts
RECURSIVE JoinParts(_)
JoinParts(parts) ==
    IF parts = <<>> THEN NoneType
    ELSE IF Len(parts) = 1 THEN parts[1]
    ELSE parts[1] \o <<";", " ">> \o JoinParts(Tail(parts))

\* An os_info string that carries the given client id, comment and class id
OsInfoOf(client_id, comment, class_id) ==
    JoinParts(
        (IF client_id # <<>> THEN <<<<"C", "l", "i", "e", "n", "t", "-", "I", "D", ":", " ">> \o client_id>> ELSE <<>>)
        \o (IF comment # <<>> THEN <<<<"C", "o", "m", "m", "e", "n", "t", ":", " ">> \o comment>> ELSE <<>>)
        \o (IF class_id # <<>> THEN <<<<"C", "l", "a", "s", "s", "-", "I", "D", ":", " ">> \o class_id>> ELSE <<>>))

\* The lease_data handed to analyze_dhcp_lease
Leases ==
    {[mac_address |-> m, hostname |-> h, os_info |-> OsInfoOf(c, k, z)] :
        m \in LeaseMacs, h \in LeaseHostnames, c \in ClientIds,
        k \in Comments, z \in ClassIds}

\* The leases that follow the first one
MoreLeases ==
    {[mac_address |-> <<"A", "A", ":", "B", "B", ":", "C", "C", ":", "D", "D", ":", "E", "E", ":", "F", "F">>, hostname |-> h,
      os_info |-> OsInfoOf(c, <<>>, <<>>)] :
        h \in {<<>>, <<"n", "a", "s">>}, c \in ClientIds}

NoLease == [mac_address |-> <<>>, hostname |-> <<>>, os_info |-> NoneType]

NoAnalysis ==
    [device_type |-> NoneType, os |-> NoneType, vendor |-> NoneType,
     confidence |-> 0, hostname |-> <<>>, client_id |-> <<>>,
     comment |-> <<>>, class_id |-> <<>>]

\* The Python str of a sequence of characters, for the hostnames of the leases
\* and the device types of the classifier
Text(s) ==
    CASE s = <<>> -> ""
      [] s = <<"r", "o", "u", "t", "e", "r">> -> "router"
      [] s = <<"i", "P", "h", "o", "n", "e", "-", "p", "c">> -> "iPhone-pc"
      [] s = <<"n", "a", "s">> -> "nas"
      [] s = <<"t", "v">> -> "tv"
      [] s = D_network_device -> "network_device"
      [] s = D_mobile_device -> "mobile_device"
      [] s = D_computer -> "computer"
      [] s = D_server -> "server"
      [] s = D_iot_device -> "iot_device"
      [] s = D_gaming_device -> "gaming_device"
      [] s = D_printer -> "printer"
      [] s = D_media_device -> "media_device"
      [] s = D_dhcp_client -> "dhcp_client"

\* RouterOSAPIDiscovery.discover: the host created from an active lease and its
\* analysis.  Of the fields it fills in, the hostname, the device type and the
\* two inferred fields that come from the analysis are modelled;
\* inference_confidence is passed only when the confidence is not 0.
LeaseHost(l, inferred_info) ==
    [Host(IP1, ROUTEROS_API) EXCEPT
        !.hostname = Text(l.hostname),
        !.device_type = T_dhcp_lease_active \o us \o inferred_info.device_type,
        !.status = ONLINE,
        !.inferred_device_type = Text(inferred_info.device_type),
        !.inference_confidence =
            IF inferred_info.confidence # 0 THEN inferred_info.confidence
            ELSE NoConfidence]

AnalyzeInit ==
    /\ lease \in Leases
    /\ inferred = NoAnalysis
    /\ apc = "lease"
    /\ hosts = <<>>
    /\ merged = <<>>
    /\ remerged = <<>>
    /\ mpc = "off"

AnalyzeOff ==
    /\ lease = NoLease
    /\ inferred = NoAnalysis
    /\ apc = "off"

\* inferred_info = DHCPAnalyzer.analyze_dhcp_lease(lease_data); hosts.append(host)
AnalyzeLease ==
    /\ apc = "lease"
    /\ inferred' = analyze_dhcp_lease(lease)
    /\ hosts' = Append(hosts, LeaseHost(lease, inferred'))
    /\ apc' = "analyzed"
    /\ mpc' = "input"
    /\ UNCHANGED <<lease, merged, remerged, ovars, svars, envvars>>

\* for lease in dhcp_leases: the next lease
NextLease ==
    /\ apc = "analyzed"
    /\ mpc = "input"
    /\ Len(hosts) < MaxLeases
    /\ lease' \in MoreLeases
    /\ apc' = "lease"
    /\ mpc' = "off"
    /\ UNCHANGED <<inferred, hosts, merged, remerged, ovars, svars, envvars>>

AnalyzeNext == AnalyzeLease \/ NextLease \/ Merge \/ Remerge

(***************************************************************************)
(* RedisClient (app/core/redis_client.py): the stored host records         *)
(***************************************************************************)
\* No hash under the key host:<ip>
Absent == [ip_address |-> None]

\* What get_host returns for what set_host wrote: set_host writes "" for None
\* and str(value) otherwise; get_host turns "" back into None for the fields
\* of optional_fields and for inference_confidence only.
StoredView(h) ==
    [h EXCEPT
        !.mac_address = IF @ = None THEN "" ELSE @,
        !.hostname = IF @ = "" THEN None ELSE @,
        !.vendor = IF @ = "" THEN None ELSE @,
        !.device_type = IF @ = <<>> THEN NoneType ELSE @,
        !.os_info = IF @ = "" THEN None ELSE @,
        !.notes = IF @ = "" THEN None ELSE @,
        !.inferred_os = IF @ = "" THEN None ELSE @,
        !.inferred_device_type = IF @ = "" THEN None ELSE @,
        !.discovery_method = IF @ = None THEN "" ELSE @]

w_router == <<"r", "o", "u", "t", "e", "r">>
w_switch == <<"s", "w", "i", "t", "c", "h">>
w_printer == <<"p", "r", "i", "n", "t", "e", "r">>
w_computer == <<"c", "o", "m", "p", "u", "t", "e", "r">>
w_unknown == <<"u", "n", "k", "n", "o", "w", "n">>

\* specificity_scores.get(t, 0)
specificity_scores(t) ==
    CASE t = T_dhcp_lease -> 10
      [] t = T_arp_entry -> 8
      [] t = T_dhcp_server -> 7
      [] t = w_router -> 6
      [] t = w_switch -> 5
      [] t = w_printer -> 4
      [] t = w_computer -> 3
      [] t = w_mobile -> 2
      [] t = w_unknown \o us \o w_device -> 1
      [] OTHER -> 0

redis_is_more_specific_device_type(new_type, current_type) ==
    IF ~TruthyType(new_type) THEN FALSE
    ELSE IF ~TruthyType(current_type) THEN TRUE
    ELSE IF /\ specificity_scores(new_type) = specificity_scores(current_type)
            /\ HasUnderscore(new_type)
            /\ ~HasUnderscore(current_type)
         THEN TRUE
         ELSE specificity_scores(new_type) > specificity_scores(current_type)

\* Host(**existing_host) is rejected when discovery_method is neither None
\* nor a member of the enumeration
ValidHost(h) == h.discovery_method \in DiscoveryMethod \cup {None}

\* merge_host_data, the branch that keeps the existing record and merges
\* single fields of the new one into it
redis_merged_data(existing_host, new_host) ==
    [existing_host EXCEPT
        !.status = IF _is_better_status(new_host.status, @)
                   THEN new_host.status ELSE @,
        !.last_seen = IF new_host.last_seen # 0
                         /\ (@ = 0 \/ new_host.last_seen > @)
                      THEN new_host.last_seen ELSE @,
        !.mac_address = IF ~Truthy(@) /\ Truthy(new_host.mac_address)
                        THEN new_host.mac_address ELSE @,
        !.hostname = IF ~Truthy(@)
                        \/ (Truthy(new_host.hostname)
                            /\ Len(new_host.hostname) > LenOrEmpty(@))
                     THEN new_host.hostname ELSE @,
        !.vendor = IF ~Truthy(@) /\ Truthy(new_host.vendor)
                   THEN new_host.vendor ELSE @,
        !.device_type =
            IF ~TruthyType(@)
               \/ redis_is_more_specific_device_type(new_host.device_type, @)
            THEN new_host.device_type ELSE @,
        !.os_info = IF ~Truthy(@)
                       \/ (Truthy(new_host.os_info)
                           /\ Len(new_host.os_info) > LenOrEmpty(@))
                    THEN new_host.os_info ELSE @,
        !.notes = IF ~Truthy(@) /\ Truthy(new_host.notes)
                  THEN new_host.notes ELSE @,
        !.inferred_os = IF ~Truthy(@) /\ Truthy(new_host.inferred_os)
                        THEN new_host.inferred_os ELSE @,
        !.inferred_device_type =
            IF ~Truthy(@) /\ Truthy(new_host.inferred_device_type)
            THEN new_host.inferred_device_type ELSE @,
        !.inference_confidence =
            IF @ \in {NoConfidence, 0}
               /\ new_host.inference_confidence \notin {NoConfidence, 0}
            THEN new_host.inference_confidence ELSE @]

\* merge_host_data once existing_host has been read: the record handed to
\* set_host, or Absent when nothing is written (validation failed, or nothing
\* changed)
host_to_write(existing_host, new_host) ==
    IF existing_host = Absent THEN new_host
    ELSE IF ~ValidHost(existing_host) THEN Absent
    ELSE IF score_host(new_host) > score_host(existing_host) THEN new_host
    ELSE IF redis_merged_data(existing_host, new_host) # existing_host
         THEN redis_merged_data(existing_host, new_host)
         ELSE Absent

(***************************************************************************)
(* DiscoveryService (app/services/discovery_service.py)                    *)
(***************************************************************************)
MaxThreshold == 2   \* DISCOVERY_MIN_HOSTS_THRESHOLD is configured in 0..MaxThreshold

\* The providers with the passive ARP scan moved to the front
discovery_methods_ArpFirst ==
    <<"ARPDiscovery", "RouterOSAPIDiscovery", "RouterOSRestDiscovery",
      "SNMPDiscovery", "NetBIOSDiscovery", "mDNSDiscovery">>

\* self.discovery_methods, by class name
discovery_methods ==
    <<"RouterOSAPIDiscovery", "RouterOSRestDiscovery", "SNMPDiscovery",
      "NetBIOSDiscovery", "mDNSDiscovery", "ARPDiscovery">>

\* The method each provider class passes to BaseDiscoveryMethod.__init__
ProviderMethod(p) ==
    CASE p = "RouterOSAPIDiscovery" -> ROUTEROS_API
      [] p = "RouterOSRestDiscovery" -> ROUTEROS_REST
      [] p = "SNMPDiscovery" -> SNMP
      [] p = "NetBIOSDiscovery" -> NETBIOS
      [] p = "mDNSDiscovery" -> MDNS
      [] p = "ARPDiscovery" -> ARP

MacOf(ip) == IF ip = IP1 THEN MAC1 ELSE MAC2

\* The observation a provider makes of an address (_create_host with the
\* fields that provider fills in)
Sighting(p, ip) ==
    LET h == Host(ip, ProviderMethod(p))
    IN CASE p = "RouterOSAPIDiscovery" ->
              [h EXCEPT !.mac_address = MacOf(ip), !.hostname = "pc",
                        !.device_type = T_dhcp_lease_active, !.os_info = "",
                        !.status = ONLINE]
         [] p = "RouterOSRestDiscovery" ->
              [h EXCEPT !.mac_address = MacOf(ip),
                        !.device_type = T_dhcp_lease]
         [] p = "SNMPDiscovery" ->
              [h EXCEPT !.mac_address = MacOf(ip), !.device_type = T_snmp_arp]
         [] p = "NetBIOSDiscovery" ->
              [h EXCEPT !.mac_address = MacOf(ip), !.device_type = T_netbios]
         [] p = "mDNSDiscovery" ->
              [h EXCEPT !.hostname = "pc",
                        !.device_type = <<"s", "m", "b">> \o us \o w_server]
         [] p = "ARPDiscovery" ->
              [h EXCEPT !.mac_address = MacOf(ip), !.device_type = T_arp_entry]

\* What one call of discover may return: the sightings of any part of the
\* network, lower address first
SightingsOf(p, ips) ==
    (IF IP1 \in ips THEN <<Sighting(p, IP1)>> ELSE <<>>)
    \o (IF IP2 \in ips THEN <<Sighting(p, IP2)>> ELSE <<>>)

\* A provider that is not configured (ROUTEROS_HOST unset) or whose library is
\* missing (zeroconf, pysnmp) returns the empty list
DiscoverResults(p) ==
    IF p \in unavailable THEN {<<>>}
    ELSE {SightingsOf(p, ips) : ips \in SUBSET net}

Callers == {"loop", "force"}

\* ... and the execution of discover_single_host
Requests == Callers \cup {"single"}

\* A call of run_discovery that has not started
IdleCycle ==
    [target |-> None,       \* discover_single_host: the address asked for
     pc |-> "idle",         \* "idle", "discover", "hgetall", "get_host",
                            \* "set_host", "done", "cancelled"
     idx |-> 0,             \* index of the provider being awaited
     acc |-> <<>>,          \* discovered_hosts while the providers run
     hp |-> 0,              \* high_priority_hosts
     total |-> 0,           \* len(discovered_hosts) when the providers are done
     invoked |-> <<>>,      \* the providers called so far, in order
     returned |-> 0,        \* how many of those calls have ended
     failed |-> FALSE,      \* whether a call of discover has raised
     reported |-> {},       \* the addresses the providers have reported
     result |-> <<>>,       \* discovered_hosts after the merge
     si |-> 0,              \* index in result of the record being stored
     attempts |-> <<>>,     \* the IPs _store_host was called for, in order
     new |-> Absent,        \* host_data / the record handed to set_host
     seen |-> Absent]       \* existing_data: what the key held when
                            \* merge_host_data last read it

InFlight(c) == c.pc \in {"discover", "hgetall", "get_host", "set_host"}

\* for host in discovered_hosts: await self._store_host(host), from the
\* si-th record on, up to the first await; discover_single_host stores
\* merged_hosts[0] only
RECURSIVE StoreFrom(_, _)
StoreFrom(c, si) ==
    IF si > Len(c.result) \/ (c.target # None /\ si > 1)
    THEN [c EXCEPT !.pc = "done", !.si = si, !.new = Absent,
                   !.seen = Absent]
    ELSE IF ~redis
    THEN StoreFrom([c EXCEPT !.attempts = Append(@, c.result[si].ip_address)],
                   si + 1)
    ELSE [c EXCEPT !.pc = "hgetall", !.si = si,
                   !.attempts = Append(@, c.result[si].ip_address),
                   !.new = [c.result[si] EXCEPT !.last_seen = now],
                   !.seen = Absent]

\* The provider loop is over: discovered_hosts becomes the merged list, which
\* is then stored
MergeAndStore(c) ==
    StoreFrom([c EXCEPT !.result = IF c.acc # <<>> THEN merge_hosts(c.acc)
                                   ELSE c.acc,
                        !.acc = <<>>],
              1)

\* The next provider of the loop is called, or the loop is over
NextProvider(c) ==
    IF c.idx < Len(discovery_methods)
    THEN [c EXCEPT !.pc = "discover", !.idx = c.idx + 1,
                   !.invoked = Append(@, discovery_methods[c.idx + 1])]
    ELSE MergeAndStore(c)

\* run_discovery up to its first await
BeginCycle ==
    IF ~settings.range_ok THEN [IdleCycle EXCEPT !.pc = "done"]
    ELSE NextProvider(IdleCycle)

\* Early termination that leaves the loop before the provider's hosts are
\* appended
AfterDiscover_DropOnStop(c, found) ==
    LET acc == c.acc \o found
        hp == IF discovery_methods[c.idx]
                    \in {"RouterOSAPIDiscovery", "RouterOSRestDiscovery"}
              THEN c.hp + Len(found) ELSE c.hp
        d == [c EXCEPT !.acc = acc, !.hp = hp, !.total = Len(acc),
                       !.returned = @ + 1,
                       !.reported = @ \cup {found[i].ip_address :
                                                i \in DOMAIN found}]
    IN IF /\ settings.early_termination
          /\ hp >= settings.threshold
          /\ Len(acc) >= settings.threshold
       THEN MergeAndStore([d EXCEPT !.acc = c.acc])
       ELSE NextProvider(d)

\* hosts = await method.discover(network) has returned found
AfterDiscover(c, found) ==
    LET acc == c.acc \o found
        hp == IF discovery_methods[c.idx]
                    \in {"RouterOSAPIDiscovery", "RouterOSRestDiscovery"}
              THEN c.hp + Len(found) ELSE c.hp
        d == [c EXCEPT !.acc = acc, !.hp = hp, !.total = Len(acc),
                       !.returned = @ + 1,
                       !.reported = @ \cup {found[i].ip_address :
                                                i \in DOMAIN found}]
    IN IF /\ settings.early_termination
          /\ hp >= settings.threshold
          /\ Len(acc) >= settings.threshold
       THEN MergeAndStore(d)
       ELSE NextProvider(d)

\* The exception of a provider leaves run_discovery
AfterDiscoverRaised_Escapes(c) ==
    [c EXCEPT !.pc = "done", !.returned = @ + 1, !.failed = TRUE]

\* await method.discover(network) has raised: continue
AfterDiscoverRaised(c) ==
    NextProvider([c EXCEPT !.returned = @ + 1,
                           !.failed = TRUE])

\* What the loop task does when run_discovery has returned: the status
\* update up to its first await
AfterCycle == IF redis THEN "set_status" ELSE "sleep"

\* The caller's continuation when its call of run_discovery has reached c.
\* The loop drops the list run_discovery returns; force_discovery returns it.
Resume(o, c) ==
    /\ cyc' = [cyc EXCEPT ![o] = IF o = "loop" /\ c.pc = "done" THEN IdleCycle
                                 ELSE c]
    /\ lpc' = IF o # "loop" THEN lpc
              ELSE IF c.pc = "done" THEN AfterCycle ELSE "cycle"

(***************************************************************************)
(* Operations                                                              *)
(***************************************************************************)
\* DiscoveryService.start
Start ==
    /\ IF running
       THEN UNCHANGED <<running, lpc, cyc>>
       ELSE /\ running' = TRUE
            /\ lpc' = "created"
            /\ cyc' = [cyc EXCEPT !["loop"] = IdleCycle]
    /\ UNCHANGED <<store, discovery_status, last_run, now, mvars, hvars, ovars, envvars>>

\* stop that clears the flag and leaves the task alone
Stop_KeepsTask ==
    /\ IF ~running
       THEN UNCHANGED <<running, lpc, cyc>>
       ELSE /\ running' = FALSE
            /\ UNCHANGED <<lpc, cyc>>
    /\ UNCHANGED <<store, discovery_status, last_run, now, mvars, hvars, ovars, envvars>>

\* DiscoveryService.stop: the task is cancelled; CancelledError is raised at
\* the await the task is suspended in, and no handler of run_discovery or
\* _store_host catches it, so the call of run_discovery is abandoned with its
\* local variables
Stop ==
    /\ IF ~running
       THEN UNCHANGED <<running, lpc, cyc>>
       ELSE /\ running' = FALSE
            /\ lpc' = IF lpc \in {"none", "dead"} THEN lpc ELSE "ended"
            /\ cyc' = [cyc EXCEPT !["loop"] =
                          IF InFlight(@)
                          THEN [IdleCycle EXCEPT !.pc = "cancelled"]
                          ELSE @]
    /\ UNCHANGED <<store, discovery_status, last_run, now, mvars, hvars, ovars, envvars>>

\* _discovery_loop: while self.running: await self.run_discovery(), when the
\* task is first scheduled or a sleep is over.  The clock is read once per
\* cycle: it advances while the loop sleeps.
LoopIterate ==
    /\ lpc \in {"created", "sleep", "err_sleep"}
    /\ IF running
       THEN Resume("loop", BeginCycle)
       ELSE lpc' = "ended" /\ UNCHANGED cyc
    /\ now' = IF lpc # "created" /\ now < MaxTime THEN now + 1 ELSE now
    /\ UNCHANGED <<running, store, discovery_status, last_run, mvars, hvars, ovars, envvars>>

\* await redis.set("discovery:status", "running")
SetStatus ==
    /\ lpc = "set_status"
    /\ \/ discovery_status' = "running" /\ lpc' = "set_last_run"
       \/ UNCHANGED discovery_status /\ lpc' = "set_error"
    /\ UNCHANGED <<running, cyc, store, last_run, now, mvars, hvars, ovars, envvars>>

\* await redis.set("discovery:last_run", datetime.now().isoformat())
SetLastRun ==
    /\ lpc = "set_last_run"
    /\ \/ last_run' = now /\ lpc' = "sleep"
       \/ UNCHANGED last_run /\ lpc' = "set_error"
    /\ UNCHANGED <<running, cyc, store, discovery_status, now, mvars, hvars, ovars, envvars>>

\* except Exception: await redis.set("discovery:status", "error: ..."); an
\* exception raised here leaves the loop and ends the task
SetError ==
    /\ lpc = "set_error"
    /\ \/ discovery_status' = "error" /\ lpc' = "err_sleep"
       \/ UNCHANGED discovery_status /\ lpc' = "dead"
    /\ UNCHANGED <<running, cyc, store, last_run, now, mvars, hvars, ovars, envvars>>

\* DiscoveryService.force_discovery (POST /discovery/run)
ForceDiscovery ==
    /\ cyc["force"].pc = "idle"
    /\ Resume("force", BeginCycle)
    /\ UNCHANGED <<running, store, discovery_status, last_run, now, mvars, hvars, ovars,
                   envvars>>

\* The response of POST /discovery/run is sent
ForceReturn ==
    /\ cyc["force"].pc = "done"
    /\ cyc' = [cyc EXCEPT !["force"] = IdleCycle]
    /\ UNCHANGED <<running, lpc, store, discovery_status, last_run, now,
                   mvars, hvars, ovars, envvars>>

\* run_discovery: method.discover returns
DiscoverReturns(o) ==
    /\ cyc[o].pc = "discover"
    /\ \E found \in DiscoverResults(discovery_methods[cyc[o].idx]) :
          Resume(o, AfterDiscover(cyc[o], found))
    /\ UNCHANGED <<running, store, discovery_status, last_run, now, mvars, hvars, ovars,
                   envvars>>

\* run_discovery: method.discover raises
DiscoverRaises(o) ==
    /\ cyc[o].pc = "discover"
    /\ Resume(o, AfterDiscoverRaised(cyc[o]))
    /\ UNCHANGED <<running, store, discovery_status, last_run, now, mvars, hvars, ovars,
                   envvars>>

\* merge_host_data: existing_data = await self.redis.hgetall(host_key); when
\* it raises, merge_host_data returns False and the next record is stored
Hgetall(o) ==
    /\ cyc[o].pc = "hgetall"
    /\ LET c == cyc[o]
       IN \/ Resume(o, [c EXCEPT !.pc = IF store[c.new.ip_address] = Absent
                                        THEN "set_host" ELSE "get_host",
                                 !.seen = store[c.new.ip_address]])
          \/ Resume(o, StoreFrom(c, c.si + 1))
    /\ UNCHANGED <<running, store, discovery_status, last_run, now, mvars, hvars, ovars,
                   envvars>>

\* merge_host_data: existing_host = await self.get_host(ip_address), which
\* returns None when the read raises; then the scores are compared and the
\* record to write is chosen
GetHost(o) ==
    /\ cyc[o].pc = "get_host"
    /\ LET c == cyc[o]
       IN \E existing_host \in {store[c.new.ip_address], Absent} :
             LET w == host_to_write(existing_host, c.new)
             IN Resume(o, IF w = Absent THEN StoreFrom(c, c.si + 1)
                          ELSE [c EXCEPT !.pc = "set_host", !.new = w,
                                         !.seen = store[c.new.ip_address]])
    /\ UNCHANGED <<running, store, discovery_status, last_run, now, mvars, hvars, ovars,
                   envvars>>

\* A failed write that ends the store loop
SetHost_AbortOnFailure(o) ==
    /\ cyc[o].pc = "set_host"
    /\ LET c == cyc[o]
       IN \/ /\ store' = [store EXCEPT ![c.new.ip_address] = StoredView(c.new)]
             /\ Resume(o, StoreFrom(c, c.si + 1))
          \/ /\ UNCHANGED store
             /\ Resume(o, [c EXCEPT !.pc = "done", !.new = Absent,
                                      !.seen = Absent])
    /\ UNCHANGED <<running, discovery_status, last_run, now, mvars, hvars, ovars, envvars>>

\* set_host: await self.redis.hset(host_key, mapping=cleaned_data); when it
\* raises, set_host returns False
SetHost(o) ==
    /\ cyc[o].pc = "set_host"
    /\ LET c == cyc[o]
       IN /\ \/ store' = [store EXCEPT ![c.new.ip_address] = StoredView(c.new)]
             \/ UNCHANGED store
          /\ Resume(o, StoreFrom(c, c.si + 1))
    /\ UNCHANGED <<running, discovery_status, last_run, now, mvars, hvars, ovars, envvars>>

\* RedisClient.get_discovery_status: the two keys as read, "unknown" for a
\* status that was never written, and the error report when the read raises
\* (as it does without a connection)
get_discovery_status ==
    IF ~redis THEN [status |-> "error", last_run |-> 0]
    ELSE [status |-> IF discovery_status = "unset" THEN "unknown"
                     ELSE discovery_status,
          last_run |-> last_run]

(***************************************************************************)
(* discover_single_host                                                    *)
(***************************************************************************)
\* ipaddress.ip_address(ip_address) accepts the address
ValidAddress(ip) == ip \in {IP1, IP2}

\* What a call of discover on the network ip/32 may return: every provider
\* keeps the addresses of the network it is given only
SingleResults(p, ip) ==
    IF p \in unavailable THEN {<<>>}
    ELSE {SightingsOf(p, ips) : ips \in SUBSET (net \cap {ip})}

\* merged_hosts = HostMerger.merge_hosts(discovered_hosts); best_host =
\* merged_hosts[0] is stored; discovered_hosts is kept as it is
SingleMergeAndStore(c) ==
    IF c.acc = <<>> THEN [c EXCEPT !.pc = "done"]
    ELSE StoreFrom([c EXCEPT !.result = merge_hosts(c.acc)], 1)

\* A loop that stops at the first provider that found the host
NextSingleProvider_StopsWhenFound(c) ==
    IF c.idx < Len(discovery_methods) /\ c.acc = <<>>
    THEN [c EXCEPT !.pc = "discover", !.idx = c.idx + 1,
                   !.invoked = Append(@, discovery_methods[c.idx + 1])]
    ELSE SingleMergeAndStore(c)

\* for method in self.discovery_methods, without early termination
NextSingleProvider(c) ==
    IF c.idx < Len(discovery_methods)
    THEN [c EXCEPT !.pc = "discover", !.idx = c.idx + 1,
                   !.invoked = Append(@, discovery_methods[c.idx + 1])]
    ELSE SingleMergeAndStore(c)

\* What discover_single_host returns: best_host, or None
SingleReturnValue(c) ==
    IF c.result # <<>> THEN c.result[1] ELSE Absent

\* discover_single_host(ip) up to its first await; an address that does not
\* parse returns None at once
SingleDiscovery ==
    /\ cyc["single"].pc = "idle"
    /\ \E ip \in {IP1, IP2, "10.0.0.256"} :
          Resume("single",
                 IF ValidAddress(ip)
                 THEN NextSingleProvider([IdleCycle EXCEPT !.target = ip])
                 ELSE [IdleCycle EXCEPT !.target = ip, !.pc = "done"])
    /\ UNCHANGED <<running, store, discovery_status, last_run, now, mvars, hvars, ovars,
                   envvars>>

\* hosts = await method.discover(network); discovered_hosts.extend(hosts)
SingleDiscoverReturns ==
    /\ cyc["single"].pc = "discover"
    /\ LET c == cyc["single"]
       IN \E found \in SingleResults(discovery_methods[c.idx], c.target) :
             Resume("single",
                    NextSingleProvider(
                        [c EXCEPT !.acc = @ \o found,
                                  !.total = Len(c.acc \o found),
                                  !.returned = @ + 1,
                                  !.reported = @ \cup {found[i].ip_address :
                                                          i \in DOMAIN found}]))
    /\ UNCHANGED <<running, store, discovery_status, last_run, now, mvars, hvars, ovars,
                   envvars>>

\* except Exception: continue
SingleDiscoverRaises ==
    /\ cyc["single"].pc = "discover"
    /\ Resume("single",
              NextSingleProvider([cyc["single"] EXCEPT !.returned = @ + 1,
                                                       !.failed = TRUE]))
    /\ UNCHANGED <<running, store, discovery_status, last_run, now, mvars, hvars, ovars,
                   envvars>>

\* The response of POST /discovery/discover/{ip_address} is sent
SingleReturn ==
    /\ cyc["single"].pc = "done"
    /\ cyc' = [cyc EXCEPT !["single"] = IdleCycle]
    /\ UNCHANGED <<running, lpc, store, discovery_status, last_run, now,
                   mvars, hvars, ovars, envvars>>

(***************************************************************************)
(* WOLService (app/services/wol_service.py).  MAC addresses are sequences  *)
(* of characters, packets are sequences of bytes.                          *)
(***************************************************************************)
HexDigits == HexLower \cup {"A", "B", "C", "D", "E", "F"}

\* int(c, 16)
HexValue(c) ==
    CASE
         c \in {"0"} -> 0
      [] c \in {"1"} -> 1
      [] c \in {"2"} -> 2
      [] c \in {"3"} -> 3
      [] c \in {"4"} -> 4
      [] c \in {"5"} -> 5
      [] c \in {"6"} -> 6
      [] c \in {"7"} -> 7
      [] c \in {"8"} -> 8
      [] c \in {"9"} -> 9
      [] c \in {"A", "a"} -> 10
      [] c \in {"B", "b"} -> 11
      [] c \in {"C", "c"} -> 12
      [] c \in {"D", "d"} -> 13
      [] c \in {"E", "e"} -> 14
      [] c \in {"F", "f"} -> 15

\* What a pattern that ends in '$' is matched against: '$' matches at the end
\* of the string and also just before a newline that ends it
Chomp(s) ==
    IF s # <<>> /\ s[Len(s)] = "\n" THEN SubSeq(s, 1, Len(s) - 1) ELSE s

\* ^XX<sep>XX<sep>XX<sep>XX<sep>XX<sep>XX$
Separated(s, sep) ==
    /\ Len(s) = 17
    /\ \A i \in 1..17 : IF i % 3 = 0 THEN s[i] = sep ELSE s[i] \in HexDigits

_is_valid_mac(mac_address) ==
    LET s == Chomp(mac_address)
    IN \/ Separated(s, ":")
       \/ Separated(s, "-")
       \/ (Len(s) = 12 /\ \A i \in 1..12 : s[i] \in HexDigits)

\* s.replace(ch, '')
Without(s, ch) == SelectSeq(s, LAMBDA c : c # ch)

\* bytes.fromhex(s) does not raise: pairs of hex digits, white space skipped
\* between the pairs
RECURSIVE IsHex(_)
IsHex(s) ==
    IF s = <<>> THEN TRUE
    ELSE IF Head(s) \in {" ", "\n", "\t"} THEN IsHex(Tail(s))
    ELSE /\ Len(s) >= 2
         /\ s[1] \in HexDigits
         /\ s[2] \in HexDigits
         /\ IsHex(SubSeq(s, 3, Len(s)))

\* bytes.fromhex(s)
RECURSIVE fromhex(_)
fromhex(s) ==
    IF s = <<>> THEN <<>>
    ELSE IF Head(s) \in {" ", "\n", "\t"} THEN fromhex(Tail(s))
    ELSE <<16 * HexValue(s[1]) + HexValue(s[2])>>
         \o fromhex(SubSeq(s, 3, Len(s)))

_mac_to_bytes(mac_address) ==
    fromhex(Without(Without(mac_address, ":"), "-"))

\* b * n
RECURSIVE Times16(_, _)
Times16(b, n) == IF n = 0 THEN <<>> ELSE b \o Times16(b, n - 1)

\* A packet with the address repeated 15 times
wol_packet_Fifteen(mac_bytes) ==
    <<255, 255, 255, 255, 255, 255>> \o Times16(mac_bytes, 15)

\* wol_packet = b'\xff' * 6 + mac_bytes * 16
wol_packet(mac_bytes) ==
    <<255, 255, 255, 255, 255, 255>> \o Times16(mac_bytes, 16)

\* The characters of the MAC addresses the providers store
MacChars(m) ==
    CASE m = MAC1 -> <<"A", "A", ":", "B", "B", ":", "C", "C", ":", "D", "D", ":", "E", "E", ":", "F", "F">>
      [] m = MAC2 -> <<"1", "1", ":", "2", "2", ":", "3", "3", ":", "4", "4", ":", "5", "5", ":", "6", "6">>

\* request.mac_address of the requests: the three accepted forms, lower case,
\* a final newline, and addresses that are not valid
WolMacs ==
    {<<"A", "A", ":", "B", "B", ":", "C", "C", ":", "D", "D", ":", "E", "E", ":", "F", "F">>,
     <<"a", "a", "-", "b", "b", "-", "c", "c", "-", "d", "d", "-", "e", "e", "-", "0", "f">>,
     <<"0", "1", "2", "3", "4", "5", "6", "7", "8", "9", "a", "b">>,
     <<"0", "1", ":", "2", "3", ":", "4", "5", ":", "6", "7", ":", "8", "9", ":", "A", "b", "\n">>,
     <<"A", "A", ":", "B", "B", ":", "C", "C", ":", "D", "D", ":", "E", "E">>,
     <<"A", "A", ":", "B", "B", "-", "C", "C", ":", "D", "D", ":", "E", "E", ":", "F", "F">>,
     <<"G", "G", ":", "B", "B", ":", "C", "C", ":", "D", "D", ":", "E", "E", ":", "F", "F">>,
     <<"0", "1", "2", "3", "4", "5", "6", "7", "8", "9", "a", "b", "c">>}

\* No request
NoWol ==
    [pc |-> "idle",             \* "idle", "get_host", "done"
     ip |-> None,               \* request.ip_address
     request_mac |-> NoneType,  \* request.mac_address
     mac |-> NoneType,          \* mac_address
     packet |-> <<>>,           \* what sendto has sent, <<>> for nothing
     success |-> FALSE]         \* WOLResponse.success

\* send_wol_packet from the validation on: an address that is not valid is
\* refused; otherwise the packet is built and sendto sends it or raises
WolOutcomes(w, mac_address) ==
    LET m == [w EXCEPT !.pc = "done", !.mac = mac_address]
    IN IF ~_is_valid_mac(mac_address) THEN {m}
       ELSE IF ~IsHex(Without(Without(mac_address, ":"), "-")) THEN {m}
       ELSE {[m EXCEPT !.packet = wol_packet(_mac_to_bytes(mac_address)),
                       !.success = TRUE],
             m}

\* send_wol_packet(request) up to its first await, or to its end
SendWol ==
    /\ wol.pc = "idle"
    /\ \E ip \in {IP1, IP2}, mac \in WolMacs \cup {NoneType, <<>>} :
          LET w == [NoWol EXCEPT !.ip = ip, !.request_mac = mac]
          IN IF TruthyType(mac)
             THEN wol' \in WolOutcomes(w, mac)
             ELSE wol' = [w EXCEPT !.pc = "get_host"]
    /\ UNCHANGED <<api, mvars, hvars, svars, envvars>>

\* host_data = await redis_client.get_host(request.ip_address), which returns
\* None when there is no record or the read raises
WolGetHost ==
    /\ wol.pc = "get_host"
    /\ \E host_data \in {Absent} \cup (IF redis THEN {store[wol.ip]} ELSE {}) :
          IF host_data # Absent /\ Truthy(host_data.mac_address)
          THEN wol' \in WolOutcomes(wol, MacChars(host_data.mac_address))
          ELSE wol' = [wol EXCEPT !.pc = "done"]
    /\ UNCHANGED <<api, mvars, hvars, svars, envvars>>

\* The WOLResponse is returned
WolReturn ==
    /\ wol.pc = "done"
    /\ wol' = NoWol
    /\ UNCHANGED <<api, mvars, hvars, svars, envvars>>

WolNext == SendWol \/ WolGetHost \/ WolReturn

(***************************************************************************)
(* The hosts endpoints (app/api/api_v1/endpoints/hosts.py) that write a    *)
(* record: POST /hosts/{ip}/unregister-wol, POST /hosts/{ip}/register-wol  *)
(* and DELETE /hosts/{ip}, one request at a time.                          *)
(***************************************************************************)
ApiOps == {"unregister-wol", "register-wol", "delete"}

\* No request of the hosts API
NoApi == [pc |-> "idle", op |-> None, ip |-> None]

\* RedisClient.update_host(ip_address, {'wol_enabled': v}): one hset of that
\* field, without a read.  The key holds a record: the endpoint has just read
\* one, no other request of the API runs and an upsert never deletes.
update_host(ip, v) == [store EXCEPT ![ip] = [@ EXCEPT !.wol_enabled = v]]

\* RedisClient.delete_host(ip_address)
delete_host(ip) == [store EXCEPT ![ip] = Absent]

\* A request arrives: the endpoint runs up to its first await
ApiRequest ==
    /\ api.pc = "idle"
    /\ \E op \in ApiOps, ip \in net :
          api' = [pc |-> "get_host", op |-> op, ip |-> ip]
    /\ UNCHANGED <<wol, mvars, hvars, svars, envvars>>

\* host_data = await redis_client.get_host(ip_address), None when there is no
\* record or the read raises: 404 without a record, 400 for register-wol
\* without a MAC address, otherwise on to the write
ApiGetHost ==
    /\ api.pc = "get_host"
    /\ \E host_data \in {store[api.ip], Absent} :
          IF \/ host_data = Absent
             \/ (api.op = "register-wol" /\ ~Truthy(host_data.mac_address))
          THEN api' = NoApi
          ELSE api' = [api EXCEPT !.pc = "write"]
    /\ UNCHANGED <<wol, mvars, hvars, svars, envvars>>

\* await redis_client.update_host / delete_host, which returns False when
\* the command raises; then the response is sent
ApiWrite ==
    /\ api.pc = "write"
    /\ \/ store' = CASE api.op = "unregister-wol" -> update_host(api.ip, FALSE)
                      [] api.op = "register-wol" -> update_host(api.ip, TRUE)
                      [] api.op = "delete" -> delete_host(api.ip)
       \/ UNCHANGED store
    /\ api' = NoApi
    /\ UNCHANGED <<wol, running, lpc, cyc, discovery_status, last_run, now,
                   mvars, hvars, envvars>>

ApiNext == ApiRequest \/ ApiGetHost \/ ApiWrite

RequestsOff ==
    /\ wol = NoWol
    /\ api = NoApi

(***************************************************************************)
(* Specifications                                                          *)
(***************************************************************************)
Settings ==
    [early_termination : BOOLEAN, threshold : 0..MaxThreshold,
     range_ok : BOOLEAN]

\* The service as constructed, Redis empty
ServiceInit ==
    /\ running = FALSE
    /\ lpc = "none"
    /\ cyc = [o \in Requests |-> IdleCycle]
    /\ store = [ip \in {IP1, IP2} |-> Absent]
    /\ discovery_status = "unset"
    /\ last_run = 0
    /\ now = 1

MergeOff ==
    /\ hosts = <<>>
    /\ merged = <<>>
    /\ remerged = <<>>
    /\ mpc = "off"

\* The steps of a call of run_discovery by caller o: the provider loop
CycleNext(o) ==
    \/ DiscoverReturns(o)
    \/ DiscoverRaises(o)

\* ... and the upserts of the merged records
StoreNext(o) ==
    \/ Hgetall(o)
    \/ GetHost(o)
    \/ SetHost(o)

\* start, stop and the background task
LoopNext ==
    \/ Start
    \/ Stop
    \/ LoopIterate
    \/ SetStatus
    \/ SetLastRun
    \/ SetError
    \/ CycleNext("loop")

\* POST /discovery/run
ForceNext ==
    \/ ForceDiscovery
    \/ ForceReturn
    \/ CycleNext("force")

\* The background loop, start and stop, and forced runs, on a network where
\* no address answers: no provider finds a host and there is nothing to store
Init ==
    /\ ServiceInit
    /\ MergeOff
    /\ AnalyzeOff
    /\ RequestsOff
    /\ settings \in Settings
    /\ redis \in BOOLEAN
    /\ net = {}
    /\ unavailable = {}

Next == LoopNext \/ ForceNext

Spec == Init /\ [][Next]_vars

\* The background loop alone, on a network of one address where SNMP, NetBIOS
\* and mDNS are not available
CycleInit ==
    /\ ServiceInit
    /\ MergeOff
    /\ AnalyzeOff
    /\ RequestsOff
    /\ settings \in Settings
    /\ redis \in BOOLEAN
    /\ net = {IP1}
    /\ unavailable = {"SNMPDiscovery", "NetBIOSDiscovery", "mDNSDiscovery"}

CycleSteps == LoopNext \/ StoreNext("loop")

SpecCycle == CycleInit /\ [][CycleSteps]_vars

\* Forced runs alone (POST /discovery/run, one request at a time), on a
\* network of two addresses where SNMP, NetBIOS and mDNS are not available
BatchInit ==
    /\ ServiceInit
    /\ MergeOff
    /\ AnalyzeOff
    /\ RequestsOff
    /\ settings \in Settings
    /\ redis \in BOOLEAN
    /\ net = {IP1, IP2}
    /\ unavailable = {"SNMPDiscovery", "NetBIOSDiscovery", "mDNSDiscovery"}

BatchSteps == ForceNext \/ StoreNext("force")

SpecBatch == BatchInit /\ [][BatchSteps]_vars

\* discover_single_host alone, one request at a time, on a network where one
\* of the two addresses answers, with early termination configured
SingleInit ==
    /\ ServiceInit
    /\ MergeOff
    /\ AnalyzeOff
    /\ RequestsOff
    /\ settings \in {s \in Settings : s.early_termination /\ s.range_ok}
    /\ redis \in BOOLEAN
    /\ net = {IP1}
    /\ unavailable = {}

SingleNext ==
    \/ SingleDiscovery
    \/ SingleDiscoverReturns
    \/ SingleDiscoverRaises
    \/ SingleReturn
    \/ StoreNext("single")

SpecSingle == SingleInit /\ [][SingleNext]_vars

\* merge_hosts on its own
MergeOnlyInit ==
    /\ MergeInit
    /\ AnalyzeOff
    /\ RequestsOff
    /\ ServiceInit
    /\ settings = [early_termination |-> TRUE, threshold |-> 1,
                   range_ok |-> TRUE]
    /\ redis = FALSE
    /\ net = {}
    /\ unavailable = {}

SpecMerge == MergeOnlyInit /\ [][MergeNext]_vars

\* analyze_dhcp_lease on its own, followed by the merge of the observations
\* made from the leases
AnalyzeOnlyInit ==
    /\ AnalyzeInit
    /\ RequestsOff
    /\ ServiceInit
    /\ settings = [early_termination |-> TRUE, threshold |-> 1,
                   range_ok |-> TRUE]
    /\ redis = FALSE
    /\ net = {}
    /\ unavailable = {}

SpecAnalyze == AnalyzeOnlyInit /\ [][AnalyzeNext]_vars

\* Wake-on-LAN requests alone, one at a time, with a store that holds nothing
\* for the second address and, for the first one, nothing, a record with a
\* MAC address (from the ARP scan) or a record without one (from mDNS)
WolInit ==
    /\ running = FALSE
    /\ lpc = "none"
    /\ cyc = [o \in Requests |-> IdleCycle]
    /\ \E r \in {Absent,
                  StoredView([Sighting("ARPDiscovery", IP1)
                                  EXCEPT !.last_seen = 1]),
                  StoredView([Sighting("mDNSDiscovery", IP1)
                                  EXCEPT !.last_seen = 1])} :
          store = [ip \in {IP1, IP2} |-> IF ip = IP1 THEN r ELSE Absent]
    /\ discovery_status = "unset"
    /\ last_run = 0
    /\ now = 1
    /\ MergeOff
    /\ AnalyzeOff
    /\ RequestsOff
    /\ settings = [early_termination |-> TRUE, threshold |-> 1,
                   range_ok |-> TRUE]
    /\ redis \in BOOLEAN
    /\ net = {IP1}
    /\ unavailable = {}

SpecWol == WolInit /\ [][WolNext]_vars

\* Forced runs (one request at a time) and the requests of the hosts API, on
\* a network of one address that only mDNS and the ARP scan can see
HostsInit ==
    /\ ServiceInit
    /\ MergeOff
    /\ AnalyzeOff
    /\ RequestsOff
    /\ settings = [early_termination |-> TRUE, threshold |-> 1,
                   range_ok |-> TRUE]
    /\ redis = TRUE
    /\ net = {IP1}
    /\ unavailable = {"RouterOSAPIDiscovery", "RouterOSRestDiscovery",
                      "SNMPDiscovery", "NetBIOSDiscovery"}

HostsNext == ForceNext \/ StoreNext("force") \/ ApiNext

SpecHosts == HostsInit /\ [][HostsNext]_vars

(***************************************************************************)
(* Properties of the merge.                                                *)
(***************************************************************************)
MaxOf(S) == CHOOSE x \in S : \A y \in S : y <= x

\* The observations that contribute to the k-th merged record
GroupOf(k) == IpGroup(hosts, merged[k].ip_address)

\* g[i] comes before g[j] in descending order of quality score, ties in the
\* original discovery order
Before(g, i, j) ==
    \/ score_host(g[i]) > score_host(g[j])
    \/ score_host(g[i]) = score_host(g[j]) /\ i < j

\* Length of an optional string, 0 when it is None
StrLen(v) == IF Truthy(v) THEN Len(v) ELSE 0

Merged == mpc # "input"

InputIps == {hosts[i].ip_address : i \in DOMAIN hosts}

\* C1: merge_hosts returns exactly one record per distinct ip_address of its
\* input: every input IP is in the output, no IP is there twice, and no IP is
\* there that was not in the input.
C1_OneRecordPerIp ==
    Merged =>
        /\ {merged[k].ip_address : k \in DOMAIN merged} = InputIps
        /\ \A j, k \in DOMAIN merged :
              merged[j].ip_address = merged[k].ip_address => j = k
        /\ Len(merged) = Cardinality(InputIps)

C1_Witness ==
    /\ Merged
    /\ Len(hosts) = 3
    /\ Cardinality(InputIps) = 2
    /\ Len(merged) = 2

\* C3: the status of a merged record is the highest-ranked status
\* (online > unknown > offline) among the observations of its IP.
C3_StatusIsHighest ==
    Merged =>
        \A k \in DOMAIN merged :
            status_priority(merged[k].status) =
                MaxOf({status_priority(GroupOf(k)[i].status) :
                          i \in DOMAIN GroupOf(k)})

\* an offline observation seeds the record and a lower-scoring online one
\* follows it
C3_Witness ==
    /\ Merged
    /\ Len(hosts) = 2
    /\ hosts[1].ip_address = hosts[2].ip_address
    /\ hosts[1].status = ONLINE
    /\ hosts[2].status = OFFLINE
    /\ score_host(hosts[2]) > score_host(hosts[1])
    /\ merged[1].status = ONLINE

\* C4: the discovery_method of a merged record has the maximal base trust
\* score among the discovery methods of the observations of its IP.
C4_MethodIsTrustMaximal ==
    Merged =>
        \A k \in DOMAIN merged :
            LET trust(m) == IF m \in DiscoveryMethod THEN METHOD_SCORES[m] ELSE 0
            IN trust(merged[k].discovery_method) =
                MaxOf({trust(GroupOf(k)[i].discovery_method) :
                          i \in DOMAIN GroupOf(k)})

\* the seed comes from ARP, and the router API observation that gives the
\* record its method gives it nothing else
C4_Witness ==
    /\ Merged
    /\ Len(hosts) = 2
    /\ hosts[1].ip_address = hosts[2].ip_address
    /\ hosts[1].discovery_method = ARP
    /\ hosts[2].discovery_method = ROUTEROS_API
    /\ score_host(hosts[1]) > score_host(hosts[2])
    /\ merged[1] = [hosts[1] EXCEPT !.discovery_method = ROUTEROS_API]

\* Number of '_'-delimited segments of a device type
Segments(t) == Len(Split(t))

\* C5 (as claimed): of two observations of one IP with non-empty device types
\* of different segment counts, the merged device_type is the one with more
\* segments.
C5_MoreSegmentsWins ==
    (/\ Merged
     /\ Len(hosts) = 2
     /\ hosts[1].ip_address = hosts[2].ip_address
     /\ TruthyType(hosts[1].device_type)
     /\ TruthyType(hosts[2].device_type)
     /\ Segments(hosts[1].device_type) # Segments(hosts[2].device_type))
    => merged[1].device_type =
          IF Segments(hosts[1].device_type) > Segments(hosts[2].device_type)
          THEN hosts[1].device_type ELSE hosts[2].device_type

\* The merged value of field f of a group g is the first non-empty one in
\* quality order
FirstNonEmpty(g, f, v) ==
    IF \E i \in DOMAIN g : Truthy(g[i][f])
    THEN \E i \in DOMAIN g :
            /\ Truthy(g[i][f])
            /\ \A j \in DOMAIN g \ {i} : Truthy(g[j][f]) => Before(g, i, j)
            /\ v = g[i][f]
    ELSE ~Truthy(v)

\* C6: for a group of two or more observations, the merged mac_address (and
\* vendor, and notes) is the value of the first observation, in descending
\* score order with ties in discovery order, that has a non-empty one.
C6_FirstNonEmptyWins ==
    Merged =>
        \A k \in DOMAIN merged :
            Len(GroupOf(k)) >= 2 =>
                \A f \in {"mac_address", "vendor", "notes"} :
                    FirstNonEmpty(GroupOf(k), f, merged[k][f])

\* router API without a MAC, then ARP with one
C6_Witness ==
    /\ Merged
    /\ Len(hosts) = 2
    /\ hosts[1] = Host(IP1, ROUTEROS_API)
    /\ hosts[2] = [Host(IP1, ARP) EXCEPT !.mac_address = MAC1]
    /\ score_host(hosts[1]) > score_host(hosts[2])
    /\ merged[1] = [hosts[1] EXCEPT !.mac_address = MAC1]

\* C7 (as claimed): for a group of two or more observations, the merged
\* last_seen is the newest last_seen among them.
C7_NewestLastSeen ==
    Merged =>
        \A k \in DOMAIN merged :
            Len(GroupOf(k)) >= 2 =>
                merged[k].last_seen =
                    MaxOf({GroupOf(k)[i].last_seen : i \in DOMAIN GroupOf(k)})

\* The merged value of field f of a group g is the first one of maximal
\* length in quality order
FirstLongest(g, f, v) ==
    LET longest == MaxOf({StrLen(g[i][f]) : i \in DOMAIN g})
    IN IF longest = 0 THEN ~Truthy(v)
       ELSE \E i \in DOMAIN g :
               /\ StrLen(g[i][f]) = longest
               /\ \A j \in DOMAIN g \ {i} :
                     StrLen(g[j][f]) = longest => Before(g, i, j)
               /\ v = g[i][f]

\* C8: for a group of two or more observations, the merged hostname (and
\* os_info) has the maximal length among the group's values, and among values
\* of that length it is the one met first: an equally long later candidate
\* does not replace it.
C8_LongestWins ==
    Merged =>
        \A k \in DOMAIN merged :
            Len(GroupOf(k)) >= 2 =>
                \A f \in {"hostname", "os_info"} :
                    FirstLongest(GroupOf(k), f, merged[k][f])

\* a shorter name, replaced by a longer one, which an equally long one
\* then fails to replace
C8_Witness ==
    /\ Merged
    /\ Len(hosts) = 3
    /\ hosts[1].hostname = "pc"
    /\ hosts[2].hostname = "tv"
    /\ hosts[3].hostname = "nas-01"
    /\ hosts[1].discovery_method = ROUTEROS_REST
    /\ hosts[2].discovery_method = ROUTEROS_API
    /\ hosts[3].discovery_method = ROUTEROS_REST
    /\ merged[1].hostname = "nas-01"

OnePerIp(hs) ==
    \A i, j \in DOMAIN hs : hs[i].ip_address = hs[j].ip_address => i = j

\* C9: merging a merged list changes nothing, and a list that has one record
\* per IP is returned as it is.
C9_Idempotent ==
    /\ mpc = "remerged" => remerged = merged
    /\ (Merged /\ OnePerIp(hosts)) => merged = hosts

C9_Witness ==
    /\ mpc = "remerged"
    /\ Len(hosts) = 3
    /\ Len(merged) = 2
    /\ merged[1] # hosts[1]
    /\ remerged = merged

(***************************************************************************)
(* Properties of the discovery service.                                    *)
(***************************************************************************)
\* The callers whose call of run_discovery is between its first provider call
\* and its last upsert
ActiveCycles == {o \in Callers : InFlight(cyc[o])}

\* C2 (as claimed): at most one discovery cycle is active at any time, under
\* every interleaving of start, stop, the background loop and force_discovery.
C2_SingleFlight == Cardinality(ActiveCycles) <= 1

\* The order of the providers and their base trust scores, as claimed
C10_Order ==
    <<"RouterOSAPIDiscovery", "RouterOSRestDiscovery", "SNMPDiscovery",
      "NetBIOSDiscovery", "mDNSDiscovery", "ARPDiscovery">>

C10_Trust == <<100, 95, 80, 70, 60, 50>>

\* C10: in every cycle the providers are invoked one at a time in the order
\* RouterOS API, RouterOS REST, SNMP, NetBIOS, mDNS, ARP, each at most once;
\* the base trust scores of their methods are 100, 95, 80, 70, 60, 50, strictly
\* descending; and a provider is invoked only when every call before it has
\* returned or raised.
C10_ProviderOrder ==
    \A o \in Callers :
        LET c == cyc[o]
        IN /\ Len(c.invoked) <= Len(C10_Order)
           /\ \A i \in DOMAIN c.invoked :
                 /\ c.invoked[i] = C10_Order[i]
                 /\ METHOD_SCORES[ProviderMethod(c.invoked[i])] = C10_Trust[i]
                 /\ \A j \in DOMAIN c.invoked :
                       i < j => C10_Trust[i] > C10_Trust[j]
           /\ c.returned = IF c.pc = "discover" THEN Len(c.invoked) - 1
                           ELSE Len(c.invoked)

\* a cycle of the loop has reached the ARP scan, after five providers of
\* which one raised or found nothing and another one found the host
C10_Witness ==
    /\ cyc["loop"].pc = "discover"
    /\ cyc["loop"].invoked = C10_Order
    /\ cyc["loop"].returned = 5
    /\ Len(cyc["loop"].acc) \in 1..4

\* Caller o's call of discover on a provider ends in this step (the call
\* returned or raised) and run_discovery goes on
ProviderCallEnds(o) ==
    /\ cyc[o].pc = "discover"
    /\ cyc'[o] # cyc[o]
    /\ cyc'[o].pc # "cancelled"

\* C11 (as claimed): the provider loop stops after a provider that is not the
\* last one if and only if early termination is enabled and the count of the
\* two router providers and the accumulated count are both at least the
\* threshold at that point; with early termination disabled all six providers
\* are invoked; and a new cycle starts from the first provider with the
\* counters reset.
C11_EarlyTermination ==
    [][\A o \in Callers :
          LET c == cyc[o]
              d == cyc'[o]
          IN /\ (ProviderCallEnds(o) /\ c.idx < Len(discovery_methods)) =>
                   ((d.pc # "discover") <=>
                       (/\ settings.early_termination
                        /\ d.hp >= settings.threshold
                        /\ d.total >= settings.threshold))
             /\ (ProviderCallEnds(o) /\ ~settings.early_termination
                   /\ d.pc # "discover") =>
                   Len(d.invoked) = Len(discovery_methods)
             /\ (c.pc \in {"idle", "done"} /\ d.pc = "discover") =>
                   (d.idx = 1 /\ d.hp = 0 /\ d.total = 0 /\ d.acc = <<>>)
      ]_vars

\* run_discovery has left the provider loop
PastMerge(c) == c.pc \in {"hgetall", "get_host", "set_host", "done"}

\* The addresses of a list of records, in order
IpsOf(hs) == [k \in DOMAIN hs |-> hs[k].ip_address]

IpSet(hs) == {hs[k].ip_address : k \in DOMAIN hs}

\* C12: whether or not a cycle terminated early, every address a provider of
\* the cycle reported is in the accumulator while the providers run, and after
\* the merge has exactly one record in the cycle's result; when the cycle is
\* over, exactly one upsert was attempted for each of them.
C12_FullAccumulatorMerged ==
    \A o \in Callers :
        LET c == cyc[o]
        IN /\ c.pc = "discover" =>
                 (IpSet(c.acc) = c.reported /\ Len(c.acc) = c.total)
           /\ PastMerge(c) =>
                 /\ IpSet(c.result) = c.reported
                 /\ OnePerIp(c.result)
                 /\ Len(c.result) <= c.total
           /\ c.pc = "done" =>
                 /\ {c.attempts[k] : k \in DOMAIN c.attempts} = c.reported
                 /\ Len(c.attempts) = Cardinality(c.reported)

\* a forced run that terminated early after the router REST provider, with
\* three observations of two addresses
C12_Witness ==
    /\ cyc["force"].pc = "done"
    /\ cyc["force"].invoked = <<"RouterOSAPIDiscovery", "RouterOSRestDiscovery">>
    /\ cyc["force"].total = 3
    /\ cyc["force"].reported = {IP1, IP2}
    /\ Len(cyc["force"].result) = 2
    /\ Len(cyc["force"].attempts) = 2

\* C13: when a provider's call of discover raises, nothing is added to the
\* accumulator or to the router count, what was accumulated is kept, the next
\* provider of the sequence is invoked, and after the last provider the merge
\* and the upserts run on what was accumulated.
C13_ProviderFailureContained ==
    [][\A o \in Callers :
          DiscoverRaises(o) =>
              LET c == cyc[o]
                  d == cyc'[o]
              IN /\ d.returned = c.returned + 1
                 /\ d.hp = c.hp
                 /\ d.total = c.total
                 /\ d.reported = c.reported
                 /\ IF c.idx < Len(C10_Order)
                    THEN /\ d.pc = "discover"
                         /\ d.acc = c.acc
                         /\ d.invoked = Append(c.invoked, C10_Order[c.idx + 1])
                    ELSE /\ o = "force" => PastMerge(d)
                         /\ PastMerge(d) =>
                               /\ IpSet(d.result) = IpSet(c.acc)
                               /\ (d.result # <<>>) => (d.attempts # <<>>)
      ]_vars

\* the first provider raised, the second one found both addresses, and the
\* cycle went on to the last provider and to its upserts
C13_Witness ==
    /\ cyc["force"].failed
    /\ cyc["force"].invoked = C10_Order
    /\ cyc["force"].pc = "set_host"
    /\ cyc["force"].si = 2
    /\ cyc["force"].reported = {IP1, IP2}
    /\ cyc["force"].hp = 2

\* C14: after the merge the upsert of each record of the result is attempted
\* exactly once, in order, one at a time; neither a failed upsert nor a
\* disconnected store stops the attempts for the records that follow; and the
\* list run_discovery returns is the complete merged list.
C14_EveryRecordAttempted ==
    /\ [](\A o \in Callers :
             LET c == cyc[o]
             IN /\ c.pc \in {"hgetall", "get_host", "set_host"} =>
                      /\ c.si \in DOMAIN c.result
                      /\ c.attempts = SubSeq(IpsOf(c.result), 1, c.si)
                      /\ c.new.ip_address = c.result[c.si].ip_address
                /\ c.pc = "done" => c.attempts = IpsOf(c.result))
    /\ [][\A o \in Callers :
             (PastMerge(cyc[o]) /\ PastMerge(cyc'[o])) =>
                 cyc'[o].result = cyc[o].result]_vars

\* the upsert of the first of two records failed and the second one was
\* stored
C14_Witness ==
    /\ redis
    /\ cyc["force"].pc = "done"
    /\ Len(cyc["force"].result) = 2
    /\ cyc["force"].attempts = <<IP1, IP2>>
    /\ store[IP1] = Absent
    /\ store[IP2] # Absent

\* The task of _discovery_loop does not exist or is over
TaskOver == lpc \in {"none", "ended", "dead"}

\* C15 (as claimed): a stop requested while a cycle of the background loop is
\* in progress does not abort that cycle.
C15_StopLetsCycleFinish ==
    [][(running /\ ~running' /\ InFlight(cyc["loop"])) =>
          cyc'["loop"] = cyc["loop"]]_vars

\* C16: once stop has returned the service is not running and its task is
\* over, so that the loop begins no cycle; only start brings a task back; and
\* stop on a service that is not running changes nothing.
C16_NoCycleAfterStop ==
    /\ [](~running => (TaskOver /\ ~InFlight(cyc["loop"])))
    /\ [][(TaskOver /\ ~TaskOver') => (~running /\ running')]_vars
    /\ [][(Stop /\ ~running) => UNCHANGED vars]_vars

\* stopped during the sleep that follows a completed cycle
C16_Witness ==
    /\ ~running
    /\ lpc = "ended"
    /\ discovery_status = "running"
    /\ last_run = now
    /\ store[IP1] # Absent

\* C17 (as claimed): the task of the loop never dies while the service is
\* marked running.
C17_LoopSurvives == running => lpc # "dead"

\* C22 (as claimed): the discovery status reports 'running' only while a
\* discovery cycle is in flight, and not between cycles or after stop; and the
\* last-run timestamp is written only when a cycle has completed.
C22_StatusReflectsCycle ==
    /\ [](get_discovery_status.status = "running" => ActiveCycles # {})
    /\ [][last_run' # last_run =>
              (lpc = "set_last_run" /\ ~InFlight(cyc["loop"]))]_vars

(***************************************************************************)
(* Properties of the quality score.                                        *)
(***************************************************************************)
\* The base score of a discovery method, as claimed
C20_Base(m) ==
    CASE m = "routeros_api" -> 100
      [] m = "routeros_rest" -> 95
      [] m = "snmp" -> 80
      [] m = "netbios" -> 70
      [] m = "mdns" -> 60
      [] m = "arp" -> 50
      [] OTHER -> 0

\* The bonus of a field whose value is present and not empty, as claimed
C20_Bonus(v, empty, points) == IF v = empty \/ v = None THEN 0 ELSE points

C20_Score(h) ==
    C20_Base(h.discovery_method)
    + C20_Bonus(h.ip_address, "", 10)
    + C20_Bonus(h.mac_address, "", 20)
    + C20_Bonus(h.hostname, "", 15)
    + C20_Bonus(h.vendor, "", 10)
    + (IF h.device_type = NoneType \/ h.device_type = <<>> THEN 0 ELSE 8)
    + C20_Bonus(h.os_info, "", 12)
    + C20_Bonus(h.notes, "", 5)
    + (IF h.os_info # None /\ Len(h.os_info) > 20 THEN 5 ELSE 0)
    + (IF h.device_type # NoneType /\ "_" \in {h.device_type[i] :
                                                  i \in DOMAIN h.device_type}
       THEN 3 ELSE 0)

\* C20: the quality score of an observation is the base score of its method
\* (0 for an absent method) plus the bonus of each of ip_address (10),
\* mac_address (20), hostname (15), vendor (10), device_type (8), os_info (12)
\* and notes (5) that is present and not empty, plus 5 for an os_info of more
\* than 20 characters, plus 3 for a device_type that contains '_'.
C20_ScoreFormula ==
    /\ \A i \in DOMAIN hosts : score_host(hosts[i]) = C20_Score(hosts[i])
    /\ \A k \in DOMAIN merged : score_host(merged[k]) = C20_Score(merged[k])

\* an os_info of 20 characters without the bonus, one of 21 characters with
\* it, and an empty os_info that earns nothing
C20_Witness ==
    /\ Merged
    /\ Len(hosts) = 3
    /\ Len(hosts[1].os_info) = 20
    /\ score_host(hosts[1]) = 122
    /\ Len(hosts[2].os_info) = 21
    /\ score_host(hosts[2]) = 127
    /\ hosts[3].os_info = ""
    /\ score_host(hosts[3]) = 105

\* The optional fields the score counts
OptionalFields ==
    {"mac_address", "hostname", "vendor", "device_type", "os_info", "notes"}

\* Non-empty values an empty field may be given: short and long strings, device
\* types with and without '_'
FillValues(f) ==
    IF f = "device_type" THEN {T_windows, T_dhcp_lease}
    ELSE {"x", MAC1, "Windows 10; Inferred OS: Windows"}

\* C21: replacing an empty (None or '') field among mac_address, hostname,
\* vendor, device_type, os_info and notes of an observation by a non-empty
\* value, every other field unchanged, never decreases its quality score.
C21_FillNeverLowers ==
    \A h \in {hosts[i] : i \in DOMAIN hosts}
               \cup {merged[k] : k \in DOMAIN merged} :
        \A f \in OptionalFields :
            ~Present(h, f) =>
                \A v \in FillValues(f) :
                    score_host([h EXCEPT ![f] = v]) >= score_host(h)

\* two observations that differ in os_info only, '' in the first and 21
\* characters in the second, which scores 12 + 5 more
C21_Witness ==
    /\ Merged
    /\ Len(hosts) = 2
    /\ hosts[1].os_info = ""
    /\ hosts[2] = [hosts[1] EXCEPT !.os_info = "Interface: ether1-abc"]
    /\ score_host(hosts[2]) = score_host(hosts[1]) + 17
    /\ merged[1].os_info = "Interface: ether1-abc"

(***************************************************************************)
(* Properties of the store's upsert.                                       *)
(***************************************************************************)
\* Two values of an optional string field are the same, None and '' alike
SameText(a, b) == a = b \/ (~Truthy(a) /\ ~Truthy(b))

\* The persisted record p has the fields the merge engine gives the record m
SameAsEngine(p, m) ==
    /\ \A f \in {"mac_address", "hostname", "vendor", "os_info", "notes",
                  "discovery_method", "inferred_os", "inferred_device_type"} :
          SameText(p[f], m[f])
    /\ \/ p.device_type = m.device_type
       \/ ~TruthyType(p.device_type) /\ ~TruthyType(m.device_type)
    /\ p.status = m.status
    /\ p.inference_confidence = m.inference_confidence

\* C19 (as claimed): when merge_host_data writes the record of an address
\* that has a persisted record E, what it persists for the fresh record N has
\* the mac_address, hostname, vendor, device_type, os_info, notes, status,
\* discovery_method and inferred fields of HostMerger.merge_hosts([E, N]).
C19_StoreMergesLikeEngine ==
    [][\A o \in Callers :
          (/\ cyc[o].pc = "set_host"
           /\ store[cyc[o].new.ip_address] # Absent
           /\ store'[cyc[o].new.ip_address] # store[cyc[o].new.ip_address]) =>
              LET c == cyc[o]
                  E == store[c.new.ip_address]
                  N == [c.result[c.si] EXCEPT !.last_seen = now]
              IN SameAsEngine(store'[c.new.ip_address],
                              merge_hosts(<<E, N>>)[1])
      ]_vars

C23_ConfidenceInRange ==
    /\ inferred.confidence \in 0..100
    /\ mpc \in {"merged", "remerged"} =>
          \A k \in DOMAIN merged :
              merged[k].inference_confidence # NoConfidence =>
                  /\ merged[k].inference_confidence \in 0..100
                  /\ \E i \in DOMAIN hosts :
                        /\ hosts[i].ip_address = merged[k].ip_address
                        /\ hosts[i].inference_confidence =
                              merged[k].inference_confidence

\* a lease with every input, whose confidence is capped at 100, then a lease
\* with a hostname and a client id, whose confidence is 60; the merged
\* record has the confidence of the first
C23_Witness ==
    /\ mpc = "merged"
    /\ Len(hosts) = 2
    /\ hosts[1].inference_confidence = 100
    /\ hosts[1].inferred_device_type = "network_device"
    /\ hosts[2].inference_confidence = 60
    /\ inferred.confidence = 60
    /\ inferred.os = <<"W", "i", "n", "d", "o", "w", "s">>
    /\ merged[1].inference_confidence = 100

\* The category the claimed rule gives: the first of the six keyword lists, in
\* priority order, of which a keyword occurs in the hostname, the comment or
\* the class id; NoneType when there is none
C26_Category(hostname, comment, class_id) ==
    LET in_any(ks) == \/ AnyIn(ks, Lower(hostname))
                      \/ AnyIn(ks, Lower(comment))
                      \/ AnyIn(ks, Lower(class_id))
    IN IF in_any(NetworkKeywords) THEN D_network_device
       ELSE IF in_any(MobileKeywords) THEN D_mobile_device
       ELSE IF in_any(ComputerKeywords) THEN D_computer
       ELSE IF in_any(ServerKeywords) THEN D_server
       ELSE IF in_any(IotKeywords) THEN D_iot_device
       ELSE IF in_any(GamingKeywords) THEN D_gaming_device
       ELSE NoneType

\* C26 (as claimed): the device type of an analysed lease is the category of
\* the first keyword list, in the order network equipment, mobile, computer,
\* server, IoT, gaming, of which a keyword occurs in the hostname, the comment
\* or the class id; and it is 'dhcp_client' only when no keyword occurs.
C26_KeywordPriority ==
    apc = "analyzed" =>
        LET claimed == C26_Category(inferred.hostname, inferred.comment,
                                    inferred.class_id)
        IN /\ claimed # NoneType => inferred.device_type = claimed
           /\ inferred.device_type = D_dhcp_client => claimed = NoneType

(***************************************************************************)
(* Properties of Wake-on-LAN.                                              *)
(***************************************************************************)
\* The j-th byte of a MAC address in one of the three accepted forms: its
\* j-th pair of hex digits
C24_MacByte(mac, j) ==
    LET at == IF Len(Chomp(mac)) = 12 THEN 2 * j - 1 ELSE 3 * j - 2
    IN 16 * HexValue(mac[at]) + HexValue(mac[at + 1])

\* The address of the request is absent and the store has none for its IP
C24_NoMac ==
    /\ ~TruthyType(wol.request_mac)
    /\ store[wol.ip] = Absent \/ ~Truthy(store[wol.ip].mac_address)

\* C24: for an address accepted by the validation (colons, hyphens or 12 bare
\* hex digits) what is sent is 102 bytes, six bytes 0xFF and then the six
\* bytes of the address 16 times, and the request succeeds exactly when the
\* packet was sent; a request without an address for whose IP none is stored,
\* and a request whose address is not valid, return success=false and send
\* nothing.
C24_WolPayload ==
    wol.pc = "done" =>
        /\ wol.success <=> wol.packet # <<>>
        /\ wol.packet # <<>> =>
              /\ _is_valid_mac(wol.mac)
              /\ Len(wol.packet) = 102
              /\ \A i \in 1..6 : wol.packet[i] = 255
              /\ \A r \in 0..15 : \A j \in 1..6 :
                    wol.packet[6 + 6 * r + j] = C24_MacByte(wol.mac, j)
        /\ C24_NoMac => (~wol.success /\ wol.packet = <<>>)
        /\ (TruthyType(wol.mac) /\ ~_is_valid_mac(wol.mac)) =>
              (~wol.success /\ wol.packet = <<>>)

\* a request with a lower-case address with hyphens, sent
C24_Witness ==
    /\ wol.pc = "done"
    /\ wol.request_mac = <<"a", "a", "-", "b", "b", "-", "c", "c", "-",
                           "d", "d", "-", "e", "e", "-", "0", "f">>
    /\ wol.success
    /\ Len(wol.packet) = 102
    /\ wol.packet[7] = 170
    /\ wol.packet[102] = 15

(***************************************************************************)
(* Properties of the upsert among the other writers of the key.           *)
(***************************************************************************)
\* Caller o's upsert changes the record of its address
Upserts(o) ==
    /\ cyc[o].pc = "set_host"
    /\ cyc'[o] # cyc[o]
    /\ store'[cyc[o].new.ip_address] # store[cyc[o].new.ip_address]

\* C25: an upsert is atomic among the writers of its key: when it writes,
\* the key still holds what the upsert read, so no write of update_host,
\* delete_host or another upsert that came in between is overwritten with
\* data computed from the stale read.
C25_UpsertAtomic ==
    [][\A o \in Requests :
          Upserts(o) => store[cyc[o].new.ip_address] = cyc[o].seen]_vars

\* C27: a stored MAC address is never lost through discovery: when the
\* record had a non-empty mac_address before an upsert, it has one after it.
C27_MacKept ==
    [][\A o \in Requests :
          (Upserts(o) /\ store[cyc[o].new.ip_address] # Absent
                      /\ Truthy(store[cyc[o].new.ip_address].mac_address))
             => Truthy(store'[cyc[o].new.ip_address].mac_address)]_vars

\* C29: once wol_enabled of a stored host is false, no upsert of a discovery
\* cycle changes it back to true.
C29_WolChoiceKept ==
    [][\A o \in Requests :
          (Upserts(o) /\ store[cyc[o].new.ip_address] # Absent
                      /\ ~store[cyc[o].new.ip_address].wol_enabled)
             => ~store'[cyc[o].new.ip_address].wol_enabled]_vars

(***************************************************************************)
(* Properties of the set of providers a cycle calls.                      *)
(***************************************************************************)
\* The providers a call of run_discovery has called
Invoked(c) == {c.invoked[i] : i \in DOMAIN c.invoked}

\* C30: in a cycle over a valid range the providers called are RouterOS API
\* alone, RouterOS API and RouterOS REST, or all six: the loop is only left
\* early right after one of the two router providers, also when a provider
\* has raised.
C30_InvokedSets ==
    \A o \in Callers :
        (settings.range_ok /\ PastMerge(cyc[o])) =>
            Invoked(cyc[o]) \in
                {{"RouterOSAPIDiscovery"},
                 {"RouterOSAPIDiscovery", "RouterOSRestDiscovery"},
                 {discovery_methods[i] : i \in DOMAIN discovery_methods}}

(***************************************************************************)
(* Properties of the merge fold as a whole.                                *)
(***************************************************************************)
C28_Fields ==
    {"mac_address", "hostname", "vendor", "device_type", "os_info", "notes",
     "inferred_os", "inferred_device_type"}

\* C28: the fold loses nothing: a field that is non-empty in some observation
\* of a group is non-empty in the merged record, with a value that occurs in
\* an observation of the group; ip_address and wol_enabled of the merged
\* record are those of the top-scoring observation (the first one among
\* equals).
C28_NoFieldLost ==
    Merged =>
        \A k \in DOMAIN merged :
            LET g == GroupOf(k)
            IN /\ \A f \in C28_Fields :
                     (\E i \in DOMAIN g : Present(g[i], f)) =>
                        /\ Present(merged[k], f)
                        /\ \E i \in DOMAIN g : g[i][f] = merged[k][f]
               /\ \E i \in DOMAIN g :
                     /\ \A j \in DOMAIN g \ {i} : Before(g, i, j)
                     /\ merged[k].ip_address = g[i].ip_address
                     /\ merged[k].wol_enabled = g[i].wol_enabled

\* the top-scoring observation has wol_enabled off and no inferred OS, a
\* lower one has wol_enabled on and an inferred OS
C28_Witness ==
    /\ Merged
    /\ \E k \in DOMAIN merged :
          LET g == GroupOf(k)
          IN /\ Len(g) >= 2
             /\ ~merged[k].wol_enabled
             /\ merged[k].inferred_os = "Windows"
             /\ \E i, j \in DOMAIN g :
                   /\ Before(g, i, j)
                   /\ ~g[i].wol_enabled /\ ~Truthy(g[i].inferred_os)
                   /\ g[j].wol_enabled /\ g[j].inferred_os = "Windows"

====
